---- MODULE Spec2Model ----
(***************************************************************************)
(* Model of webrtc/api/rtcstatscollector.cc: the RTCStatsCollector, which  *)
(* gathers stats on the signaling, worker and network threads, merges the  *)
(* three partial reports on the signaling thread, caches the merged report *)
(* and delivers it to every queued callback.                               *)
(***************************************************************************)
EXTENDS Integers, Sequences, FiniteSets, TLC

(***************************************************************************)
(* Bounds of the model.                                                    *)
(***************************************************************************)
\* number of GetStatsReport calls in one behaviour
MaxCallbacks == 2
\* number of times GetStatsReport starts gathering in one behaviour
MaxCycles == 2
\* largest value of the monotonic clock rtc::TimeMicros()
MaxTime == 1
\* largest cache_lifetime_us passed to the constructor
MaxLifetime == 0
\* longest certificate chain
MaxChain == 2
\* largest number of connection infos of a session
MaxInfos == 2
\* largest number of data channels
MaxDataChannels == 2

(***************************************************************************)
(* Program constants.                                                      *)
(***************************************************************************)
\* num_pending_partial_reports_ = 3 in GetStatsReport
NumPartialReports == 3
\* a null scoped_refptr<RTCStatsReport>
NullReport == 0
\* the signaling thread; worker and network threads are 1, 2 or 3
SignalingThread == 1

Threads == {1, 2, 3}

(***************************************************************************)
(* cricket port type tags (webrtc/p2p/base/port.h) and the session data    *)
(* the collector reads through pc_->session().                             *)
(***************************************************************************)
LOCAL_PORT_TYPE == "local"
STUN_PORT_TYPE == "stun"
PRFLX_PORT_TYPE == "prflx"
RELAY_PORT_TYPE == "relay"

Candidate(id, ip, port, type, priority) ==
  [id |-> id, ip |-> ip, port |-> port, protocol |-> "udp", type |-> type,
   priority |-> priority]

ConnectionInfo(local, remote, writable, sent, recv, rtt) ==
  [local_candidate |-> local, remote_candidate |-> remote,
   writable |-> writable, sent_total_bytes |-> sent,
   recv_total_bytes |-> recv, rtt |-> rtt,
   sent_ping_requests_total |-> 3, recv_ping_responses |-> 2,
   sent_ping_responses |-> 0]

SSLCertificateStats(fingerprint) ==
  [fingerprint |-> fingerprint, fingerprint_algorithm |-> "sha-1",
   base64_certificate |-> "pem:" \o fingerprint]

CandA == Candidate("la", "42.42.42.42", 42, LOCAL_PORT_TYPE, 42)
CandB == Candidate("rb", "13.37.13.37", 1337, STUN_PORT_TYPE, 0)
CandC == Candidate("rc", "13.37.13.38", 1338, RELAY_PORT_TYPE, 7)

\* GetTransportStats returns false, no certificates, no data channels: the
\* defaults of RTCStatsCollectorTestHelper.
SessionEmpty ==
  [ok |-> FALSE, transport_stats |-> << >>, data_channels |-> << >>]

\* One transport with a local chain of two certificates, a remote chain of
\* one, one channel with two connections that share the local candidate, and
\* two data channels.
SessionOne ==
  [ok |-> TRUE,
   transport_stats |-> <<
     [transport_name |-> "transport",
      local_certificate |-> <<SSLCertificateStats("L0"),
                              SSLCertificateStats("L1")>>,
      remote_certificate |-> <<SSLCertificateStats("R0")>>,
      channel_stats |-> <<
        <<ConnectionInfo(CandA, CandB, TRUE, 42, 1234, 1337),
          ConnectionInfo(CandA, CandC, FALSE, 0, 0, 0)>> >>] >>,
   data_channels |-> <<"connecting", "open">>]

Sessions == {SessionEmpty, SessionOne}

\* The sequences over S of length at most n.
SeqsUpTo(S, n) == UNION {[1..k -> S] : k \in 0..n}

TransportStats(name, local, remote, channels) ==
  [transport_name |-> name, local_certificate |-> local,
   remote_certificate |-> remote, channel_stats |-> channels]

\* The keys of SessionStats::transport_stats, in map order.
TransportNames == <<"a", "b", "c", "d">>

Fingerprints == {"X", "Y", "Z"}

\* Certificate chains of at most n certificates, leaf first; the empty chain
\* stands for no certificate.
CertificateChains(n) ==
  {[i \in 1..Len(f) |-> SSLCertificateStats(f[i])] :
     f \in SeqsUpTo(Fingerprints, n)}

\* Sessions with certificates: one transport with any local and remote chain,
\* or two transports that use one local certificate and have short remote
\* chains.
CertificateSessions ==
  {[ok |-> TRUE,
    transport_stats |-> <<TransportStats("a", l, r, << >>)>>,
    data_channels |-> << >>] :
     l \in CertificateChains(MaxChain), r \in CertificateChains(MaxChain)}
  \cup
  {[ok |-> TRUE,
    transport_stats |-> <<TransportStats("a", l, r[1], << >>),
                          TransportStats("b", l, r[2], << >>)>>,
    data_channels |-> << >>] :
     l \in CertificateChains(MaxChain),
     r \in CertificateChains(1) \X CertificateChains(1)}

\* A second local candidate, and a remote candidate whose id is the id of the
\* local candidate CandA.
CandD == Candidate("ld", "42.42.42.43", 43, PRFLX_PORT_TYPE, 1)
CandE == Candidate("la", "13.37.13.39", 1339, PRFLX_PORT_TYPE, 2)

ConnectionInfoSet ==
  {ConnectionInfo(l, r, v[1], v[2], v[3], v[4]) :
     l \in {CandA, CandD}, r \in {CandB, CandC, CandE},
     v \in {<<TRUE, 42, 1234, 1337>>, <<FALSE, 0, 0, 0>>}}

\* Sessions with connection infos: all in one channel, each in a channel of
\* its own, or each in a transport of its own.
CandidateSessions ==
  UNION {
    {[ok |-> TRUE,
      transport_stats |-> <<TransportStats("a", << >>, << >>, <<infos>>)>>,
      data_channels |-> << >>],
     [ok |-> TRUE,
      transport_stats |->
        <<TransportStats("a", << >>, << >>,
                         [i \in 1..Len(infos) |-> <<infos[i]>>])>>,
      data_channels |-> << >>],
     [ok |-> TRUE,
      transport_stats |->
        [i \in 1..Len(infos) |->
           TransportStats(TransportNames[i], << >>, << >>,
                          << <<infos[i]>> >>)],
      data_channels |-> << >>]} :
    infos \in SeqsUpTo(ConnectionInfoSet, MaxInfos)}

\* The type tags a candidate may carry: the four of port.h, the empty tag of
\* a default-constructed cricket::Candidate, and a tag port.h does not have.
PortTypes ==
  {LOCAL_PORT_TYPE, STUN_PORT_TYPE, PRFLX_PORT_TYPE, RELAY_PORT_TYPE, "",
   "unknown"}

\* Sessions whose candidates carry every type tag: one connection info, alone
\* or after a connection info of CandA and CandB.
TypeTagSessions ==
  UNION {
    {[ok |-> TRUE,
      transport_stats |-> <<TransportStats("a", << >>, << >>, <<infos>>)>>,
      data_channels |-> << >>] :
       infos \in
         {<<ConnectionInfo(Candidate("lt", "42.42.42.44", 44, t[1], 3),
                           Candidate("rt", "13.37.13.40", 1340, t[2], 4),
                           TRUE, 42, 1234, 1337)>>,
          <<ConnectionInfo(CandA, CandB, TRUE, 42, 1234, 1337),
            ConnectionInfo(Candidate("lt", "42.42.42.44", 44, t[1], 3),
                           Candidate("rt", "13.37.13.40", 1340, t[2], 4),
                           TRUE, 42, 1234, 1337)>>}} :
    t \in PortTypes \X PortTypes}

DataChannelStates == {"connecting", "open", "closing", "closed"}

DataChannelSessions ==
  {[ok |-> FALSE, transport_stats |-> << >>, data_channels |-> d] :
     d \in SeqsUpTo(DataChannelStates, MaxDataChannels)}

\* Sessions with data missing: GetTransportStats returns false (whatever it
\* left in session_stats), or a transport has no local or no remote
\* certificate.
AbsenceSessions ==
  {[SessionOne EXCEPT !.ok = FALSE],
   [ok |-> TRUE,
    transport_stats |->
      <<TransportStats("a", << >>, <<SSLCertificateStats("X")>>, << >>)>>,
    data_channels |-> << >>],
   [ok |-> TRUE,
    transport_stats |->
      <<TransportStats("a", <<SSLCertificateStats("X"),
                              SSLCertificateStats("Y")>>, << >>, << >>),
        TransportStats("b", << >>, << >>, << >>)>>,
    data_channels |-> <<"open">>]}

\* The sessions the properties of the producers range over.
ProducerSessions ==
  Sessions \cup CertificateSessions \cup CandidateSessions
    \cup TypeTagSessions \cup DataChannelSessions

(***************************************************************************)
(* RTCStatsReport: a map from id to stats object.  A stats object is       *)
(* [id, timestamp_us, type, m] where the domain of m is the set of defined *)
(* members.                                                                *)
(***************************************************************************)
EmptyReport == << >>

Get(report, id) == IF id \in DOMAIN report THEN report[id] ELSE "nullptr"

Has(report, id) == id \in DOMAIN report

AddStats(report, stats) ==
  IF stats.id \in DOMAIN report THEN report
  ELSE [x \in DOMAIN report \cup {stats.id} |->
          IF x = stats.id THEN stats ELSE report[x]]

TakeMembersFrom(report, victim) ==
  [x \in DOMAIN report \cup DOMAIN victim |->
     IF x \in DOMAIN report THEN report[x] ELSE victim[x]]

SetMember(report, id, name, value) ==
  [report EXCEPT ![id] = [@ EXCEPT !.m = (name :> value) @@ @]]

(***************************************************************************)
(* The producers.                                                          *)
(***************************************************************************)
\* Variant: a type tag that is none of the four is reported as host.
CandidateTypeToRTCIceCandidateType_DefaultsToHost(type) ==
  CASE type = STUN_PORT_TYPE -> "srflx"
    [] type = PRFLX_PORT_TYPE -> "prflx"
    [] type = RELAY_PORT_TYPE -> "relay"
    [] OTHER -> "host"

\* The string returned; "nullptr" stands for the path through RTC_NOTREACHED
\* that ends in return nullptr.
CandidateTypeToRTCIceCandidateType(type) ==
  CASE type = LOCAL_PORT_TYPE -> "host"
    [] type = STUN_PORT_TYPE -> "srflx"
    [] type = PRFLX_PORT_TYPE -> "prflx"
    [] type = RELAY_PORT_TYPE -> "relay"
    [] OTHER -> "nullptr"

\* RTC_DCHECK, RTC_DCHECK_EQ and RTC_NOTREACHED end the process where the
\* build compiles them in (RTC_DCHECK_IS_ON) and are no code where it does not.
DcheckIsOn == BOOLEAN

\* What a producer has done so far: the report it fills, the ids it passed to
\* AddStats while the report already held them, whether an RTC_DCHECK
\* failed, whether the process was ended by one (nothing runs after that),
\* and the records written to after AddStats had taken them.
NewProduction == [report |-> EmptyReport, collisions |-> {},
                  dcheck_failed |-> FALSE, dcheck_is_on |-> FALSE,
                  aborted |-> FALSE, rewritten |-> {}]

\* report->AddStats(stats) at a call site of the producers.
CallAddStats(p, stats) ==
  IF p.aborted THEN p
  ELSE [p EXCEPT !.report = AddStats(@, stats),
                 !.collisions = IF Has(p.report, stats.id)
                                THEN @ \cup {stats.id} ELSE @]

\* prev_stats->issuer_certificate_id = stats->id() writes through a raw
\* pointer to the object handed to AddStats one iteration earlier.  When that
\* AddStats found the id present the object was not stored and has been
\* destroyed, and the write is a use after free: it is lost, or it lands in
\* the object allocated since, which is stats itself.
UseAfterFreeOutcomes == {"lost", "aliased"}

\* Variant: the issuer link is never written.
LinkIssuer_Never(p, prev_stats, id) == p

\* if (prev_stats) prev_stats->issuer_certificate_id = stats->id(), for a
\* prev_stats that the report holds.
LinkIssuer(p, prev_stats, id) ==
  IF prev_stats.id # "nullptr" /\ prev_stats.in_report
  THEN [p EXCEPT !.report =
          SetMember(@, prev_stats.id, "issuer_certificate_id", id),
                 !.rewritten =
          @ \cup {<<prev_stats.id, "issuer_certificate_id">>}]
  ELSE p

RECURSIVE CertificateChainLoop(_, _, _, _, _, _)
CertificateChainLoop(chain, i, prev_stats, timestamp_us, uaf, p) ==
  IF i > Len(chain) THEN p
  ELSE LET s == chain[i]
           id == "RTCCertificate_" \o s.fingerprint
           members == [fingerprint |-> s.fingerprint,
                       fingerprint_algorithm |-> s.fingerprint_algorithm,
                       base64_certificate |-> s.base64_certificate]
           dangling == prev_stats.id # "nullptr" /\ ~prev_stats.in_report
           stats == [id |-> id, timestamp_us |-> timestamp_us,
                     type |-> "certificate",
                     m |-> IF dangling /\ uaf = "aliased"
                           THEN ("issuer_certificate_id" :> id) @@ members
                           ELSE members]
           linked == LinkIssuer(p, prev_stats, id)
       IN  CertificateChainLoop(chain, i + 1,
             [id |-> id, in_report |-> ~Has(linked.report, id)],
             timestamp_us, uaf, CallAddStats(linked, stats))

ProduceCertificateStatsFromSSLCertificateAndChain_s(timestamp_us, chain, uaf, p) ==
  CertificateChainLoop(chain, 1, [id |-> "nullptr", in_report |-> FALSE],
                       timestamp_us, uaf, p)

RECURSIVE ProduceCertificateStatsLoop(_, _, _, _, _)
ProduceCertificateStatsLoop(transports, i, timestamp_us, uaf, p) ==
  IF i > Len(transports) THEN p
  ELSE LET t == transports[i]
           with_local ==
             IF t.local_certificate # << >>
             THEN ProduceCertificateStatsFromSSLCertificateAndChain_s(
                    timestamp_us, t.local_certificate, uaf, p)
             ELSE p
           with_remote ==
             IF t.remote_certificate # << >>
             THEN ProduceCertificateStatsFromSSLCertificateAndChain_s(
                    timestamp_us, t.remote_certificate, uaf, with_local)
             ELSE with_local
       IN  ProduceCertificateStatsLoop(transports, i + 1, timestamp_us, uaf,
                                       with_remote)

ProduceCertificateStats_s(timestamp_us, session_stats, uaf, p) ==
  ProduceCertificateStatsLoop(session_stats.transport_stats, 1, timestamp_us,
                              uaf, p)

IceCandidateStatsId(candidate) == "RTCIceCandidate_" \o candidate.id

\* Variant: the candidate is added without looking it up first.
ProduceIceCandidateStats_s_NoLookup(timestamp_us, candidate, is_local, p) ==
  CallAddStats(p,
    [id |-> IceCandidateStatsId(candidate), timestamp_us |-> timestamp_us,
     type |-> IF is_local THEN "local-candidate" ELSE "remote-candidate",
     m |-> [ip |-> candidate.ip, port |-> candidate.port,
            protocol |-> candidate.protocol,
            candidate_type |->
              CandidateTypeToRTCIceCandidateType(candidate.type),
            priority |-> candidate.priority]])

\* The production after ProduceIceCandidateStats_s; the id it returns is
\* IceCandidateStatsId(candidate), the id of the record found or added.
\* When CandidateTypeToRTCIceCandidateType gets a tag it does not know, the
\* process ends before AddStats in every build: at RTC_NOTREACHED where that
\* is compiled in, and otherwise when candidate_type = nullptr builds a
\* std::string from a null pointer.  A failed RTC_DCHECK_EQ ends the process
\* where it is compiled in.
ProduceIceCandidateStats_s(timestamp_us, candidate, is_local, p) ==
  LET id == IceCandidateStatsId(candidate)
      type == IF is_local THEN "local-candidate" ELSE "remote-candidate"
      candidate_type == CandidateTypeToRTCIceCandidateType(candidate.type)
      added == IF Has(p.report, id) THEN p
               ELSE IF candidate_type = "nullptr"
               THEN [p EXCEPT !.aborted = TRUE]
               ELSE CallAddStats(p,
                      [id |-> id, timestamp_us |-> timestamp_us,
                       type |-> type,
                       m |-> [ip |-> candidate.ip, port |-> candidate.port,
                              protocol |-> candidate.protocol,
                              candidate_type |-> candidate_type,
                              priority |-> candidate.priority]])
  IN  IF p.aborted \/ added.aborted THEN added
      ELSE LET failed == Get(added.report, id).type # type
           IN  [added EXCEPT !.dcheck_failed = @ \/ failed,
                             !.aborted = failed /\ p.dcheck_is_on]

\* info.rtt is in milliseconds; current_rtt is that number of thousandths of
\* a second.
RttSeconds(rtt) == [thousandths |-> rtt]

RECURSIVE ConnectionInfos(_, _, _)
ConnectionInfos(transports, i, j) ==
  IF i > Len(transports) THEN << >>
  ELSE IF j > Len(transports[i].channel_stats)
       THEN ConnectionInfos(transports, i + 1, 1)
       ELSE transports[i].channel_stats[j] \o
            ConnectionInfos(transports, i, j + 1)

IceCandidatePairStatsId(info) ==
  "RTCIceCandidatePair_" \o info.local_candidate.id \o "_"
    \o info.remote_candidate.id

\* Variant: a member whose value is zero or false is left undefined.
CandidatePairMembers_ZeroUndefined(info) ==
  LET all == [local_candidate_id |->
                IceCandidateStatsId(info.local_candidate),
              remote_candidate_id |->
                IceCandidateStatsId(info.remote_candidate),
              writable |-> info.writable,
              bytes_sent |-> info.sent_total_bytes,
              bytes_received |-> info.recv_total_bytes,
              current_rtt |-> RttSeconds(info.rtt),
              requests_sent |-> info.sent_ping_requests_total,
              responses_received |-> info.recv_ping_responses,
              responses_sent |-> info.sent_ping_responses]
      kept == {"local_candidate_id", "remote_candidate_id", "writable",
               "current_rtt"}
              \cup {n \in {"bytes_sent", "bytes_received", "requests_sent",
                            "responses_received", "responses_sent"} :
                      all[n] # 0}
  IN  [n \in kept |-> all[n]]

\* The members ProduceIceCandidateAndPairStats_s defines on a candidate pair.
CandidatePairMembers(info) ==
  [local_candidate_id |-> IceCandidateStatsId(info.local_candidate),
   remote_candidate_id |-> IceCandidateStatsId(info.remote_candidate),
   writable |-> info.writable,
   bytes_sent |-> info.sent_total_bytes,
   bytes_received |-> info.recv_total_bytes,
   current_rtt |-> RttSeconds(info.rtt),
   requests_sent |-> info.sent_ping_requests_total,
   responses_received |-> info.recv_ping_responses,
   responses_sent |-> info.sent_ping_responses]

RECURSIVE IceCandidatePairLoop(_, _, _, _)
IceCandidatePairLoop(infos, i, timestamp_us, p) ==
  IF i > Len(infos) \/ p.aborted THEN p
  ELSE LET info == infos[i]
           id == IceCandidatePairStatsId(info)
           with_local == ProduceIceCandidateStats_s(
                           timestamp_us, info.local_candidate, TRUE, p)
           with_remote == ProduceIceCandidateStats_s(
                            timestamp_us, info.remote_candidate, FALSE,
                            with_local)
           candidate_pair_stats ==
             [id |-> id, timestamp_us |-> timestamp_us,
              type |-> "candidate-pair",
              m |-> CandidatePairMembers(info)]
       IN  IceCandidatePairLoop(infos, i + 1, timestamp_us,
                                CallAddStats(with_remote,
                                             candidate_pair_stats))

ProduceIceCandidateAndPairStats_s(timestamp_us, session_stats, p) ==
  IceCandidatePairLoop(ConnectionInfos(session_stats.transport_stats, 1, 1),
                       1, timestamp_us, p)

\* a - b in uint32_t arithmetic; a result that wrapped around is kept apart
\* from every count.
Uint32Minus(a, b) == IF a >= b THEN a - b ELSE [wrapped_below_zero_by |-> b - a]

\* The number of open data channels, counted as the loop counts it.
RECURSIVE DataChannelsOpened(_, _)
DataChannelsOpened(data_channels, i) ==
  IF i > Len(data_channels) THEN 0
  ELSE (IF data_channels[i] = "open" THEN 1 ELSE 0)
       + DataChannelsOpened(data_channels, i + 1)

\* Variant: data_channels_closed counts the channels in state closed.
ProducePeerConnectionStats_s_CountsClosed(timestamp_us, data_channels, p) ==
  LET data_channels_opened == DataChannelsOpened(data_channels, 1)
      closed == Cardinality({i \in 1..Len(data_channels) :
                               data_channels[i] = "closed"})
  IN  CallAddStats(p,
        [id |-> "RTCPeerConnection", timestamp_us |-> timestamp_us,
         type |-> "peer-connection",
         m |-> [data_channels_opened |-> data_channels_opened,
                data_channels_closed |-> closed]])

\* Variant: the record is stamped with a reading of the clock the producer
\* takes itself, a later reading than the one GetStatsReport took.
ProducePeerConnectionStats_s_OwnReading(timestamp_us, data_channels, p) ==
  LET data_channels_opened == DataChannelsOpened(data_channels, 1)
  IN  CallAddStats(p,
        [id |-> "RTCPeerConnection", timestamp_us |-> timestamp_us + MaxCycles,
         type |-> "peer-connection",
         m |-> [data_channels_opened |-> data_channels_opened,
                data_channels_closed |->
                  Uint32Minus(Len(data_channels), data_channels_opened)]])

ProducePeerConnectionStats_s(timestamp_us, data_channels, p) ==
  LET data_channels_opened == DataChannelsOpened(data_channels, 1)
  IN  CallAddStats(p,
        [id |-> "RTCPeerConnection", timestamp_us |-> timestamp_us,
         type |-> "peer-connection",
         m |-> [data_channels_opened |-> data_channels_opened,
                data_channels_closed |->
                  Uint32Minus(Len(data_channels), data_channels_opened)]])

\* Variant: the result of GetTransportStats is not looked at.
GetTransportStats_IgnoresResult(s) == TRUE

\* pc_->session()->GetTransportStats(&session_stats)
GetTransportStats(s) == s.ok

\* What ProducePartialResultsOnSignalingThread builds.
SignalingPartial(timestamp_us, s, uaf, dcheck_is_on) ==
  LET start == [NewProduction EXCEPT !.dcheck_is_on = dcheck_is_on]
      with_certs == IF GetTransportStats(s)
                    THEN ProduceCertificateStats_s(timestamp_us, s, uaf, start)
                    ELSE start
      with_pairs == IF GetTransportStats(s)
                    THEN ProduceIceCandidateAndPairStats_s(timestamp_us, s,
                                                           with_certs)
                    ELSE with_certs
  IN  ProducePeerConnectionStats_s(timestamp_us, s.data_channels, with_pairs)

\* rtc::TimeUTCMicros() is the system clock, which may be set and need not
\* increase.  The collector only copies its value into the records, so the
\* value is kept symbolic: the n-th reading is named n, and nothing is assumed
\* about the order of the times the names stand for.  utc_readings[n] is the
\* value the n-th reading returned.
TimeUTCMicros(reading) == reading

\* The sessions of the specifications that run the whole collector.
TabulatedSessions == Sessions \cup AbsenceSessions

\* SignalingPartial for every timestamp, tabulated session and outcome.
SignalingPartials ==
  [timestamp_us \in {TimeUTCMicros(n) : n \in 1..MaxCycles},
   s \in TabulatedSessions,
   uaf \in UseAfterFreeOutcomes, dcheck_is_on \in DcheckIsOn |->
     SignalingPartial(timestamp_us, s, uaf, dcheck_is_on)]

(***************************************************************************)
(* State of the collector, of the three threads and of the callers.        *)
(***************************************************************************)
VARIABLES
  callbacks_,                    \* callbacks waiting for a report
  num_pending_partial_reports_,
  partial_report_timestamp_us_,
  cache_timestamp_us_,
  cache_lifetime_us_,
  cached_report_,                \* a report object, or NullReport
  partial_report_,               \* a report object, or NullReport
  reports,         \* the contents of the RTCStatsReport objects
  msgq,            \* the message queue of each thread (rtc::Thread::Post)
  worker_thread_,
  network_thread_,
  time_us,         \* rtc::TimeMicros()
  utc_us,          \* what rtc::TimeUTCMicros() returns now
  session,         \* what pc_->session() and pc_ return
  delivered,       \* per callback, the reports OnStatsDelivered received
  registration,    \* per callback, what held when GetStatsReport took it
  num_requests,    \* GetStatsReport calls so far
  num_cycles,      \* times GetStatsReport started gathering
  produced,        \* per producer, the partials it built in this cycle
  merged,          \* report objects AddPartialResults_s took in this cycle
  completion_us,   \* rtc::TimeMicros() when the last cycle completed
  invalidated,     \* reports published before the pending invalidation
  cleared_in_flight,
  accessed_on,     \* threads that have read or written the collector's state
  utc_readings,    \* the value of the n-th reading GetStatsReport took
  faults           \* AddStats collisions and failed RTC_DCHECKs of the producers

collector_vars ==
  <<callbacks_, num_pending_partial_reports_, partial_report_timestamp_us_,
    cache_timestamp_us_, cache_lifetime_us_, cached_report_, partial_report_>>

env_vars ==
  <<reports, msgq, worker_thread_, network_thread_, time_us, utc_us, session>>

history_vars ==
  <<delivered, registration, num_requests, num_cycles, produced, merged,
    completion_us, invalidated, cleared_in_flight, accessed_on, utc_readings,
    faults>>

vars == <<collector_vars, env_vars, history_vars>>

Producers == {"signaling", "worker", "network"}

Callbacks == 1..MaxCallbacks

\* The identities of the report objects.  RTCStatsReport::Create() returns a
\* new object each time; the object the k-th producer creates in cycle n is
\* named 3*(n-1)+k, so that the names do not depend on which thread runs
\* first.
ReportIds == 1..(NumPartialReports * MaxCycles)

ReportId(cycle, k) == NumPartialReports * (cycle - 1) + k

\* What held when GetStatsReport took a callback: the branch taken (path), the
\* number of the cycle it waits for or was served from, the cached report and
\* the pending count before the call, the monotonic time since the cache
\* timestamp, since the last start of gathering and since the last completion,
\* the reports invalidated by a ClearCachedStatsReport since the last call,
\* and the cycle that was running when ClearCachedStatsReport was called
\* during it (0 when it was not called during the cycle now running).
NoRegistration ==
  [path |-> "none", cycle |-> 0, cached |-> NullReport, pending |-> 0,
   age |-> 0, since_start |-> 0, since_completion |-> 0, banned |-> {},
   cleared_cycle |-> 0]

\* The thread configurations: the worker and network threads may each be the
\* signaling thread, the same thread, or threads of their own.
ThreadConfigs == {<<1, 1>>, <<1, 2>>, <<2, 1>>, <<2, 2>>, <<2, 3>>}

NoFaults == [collisions |-> {}, dcheck_failed |-> FALSE, aborted |-> FALSE,
             rewritten |-> {}]

\* The process has not been ended by a failed RTC_DCHECK or RTC_NOTREACHED.
Running == ~faults.aborted

Init ==
  /\ callbacks_ = << >>
  /\ num_pending_partial_reports_ = 0
  /\ partial_report_timestamp_us_ = 0
  /\ cache_timestamp_us_ = 0
  /\ cache_lifetime_us_ \in 0..MaxLifetime
  /\ cached_report_ = NullReport
  /\ partial_report_ = NullReport
  /\ reports = [r \in ReportIds |-> EmptyReport]
  /\ msgq = [t \in Threads |-> << >>]
  /\ \E c \in ThreadConfigs : worker_thread_ = c[1] /\ network_thread_ = c[2]
  /\ time_us = 0
  /\ utc_us = 0
  /\ session \in Sessions
  /\ delivered = [c \in Callbacks |-> << >>]
  /\ registration = [c \in Callbacks |-> NoRegistration]
  /\ num_requests = 0
  /\ num_cycles = 0
  /\ produced = [p \in Producers |-> << >>]
  /\ merged = {}
  /\ completion_us = 0
  /\ invalidated = {}
  /\ cleared_in_flight = FALSE
  /\ accessed_on = {}
  /\ utc_readings = << >>
  /\ faults = NoFaults

\* Every report object some callback has received.
Published == UNION {{delivered[c][i] : i \in 1..Len(delivered[c])} : c \in Callbacks}

Post(q, thread, message) == [q EXCEPT ![thread] = Append(@, message)]

Task(handler, timestamp_us, report) ==
  [handler |-> handler, timestamp_us |-> timestamp_us, report |-> report]

HeadIs(thread, handler) ==
  /\ msgq[thread] # << >>
  /\ Head(msgq[thread]).handler = handler

Popped(thread) == [msgq EXCEPT ![thread] = Tail(@)]

(***************************************************************************)
(* DeliverCachedReport: OnStatsDelivered(report) on every callback of cbs, *)
(* then callbacks_.clear().                                                *)
(***************************************************************************)
\* Variant: only the first waiting callback is served and removed.
DeliverCachedReport_FirstOnly(cbs, report) ==
  /\ delivered' = [delivered EXCEPT ![cbs[1]] = Append(@, report)]
  /\ callbacks_' = Tail(cbs)

\* Variant: callbacks_ is not cleared after the delivery.
DeliverCachedReport_NoClear(cbs, report) ==
  /\ delivered' = [c \in Callbacks |->
                     LET times == Cardinality({i \in 1..Len(cbs) : cbs[i] = c})
                     IN  IF times = 0 THEN delivered[c]
                         ELSE delivered[c] \o [i \in 1..times |-> report]]
  /\ callbacks_' = cbs

DeliverCachedReport(cbs, report) ==
  /\ delivered' = [c \in Callbacks |->
                     LET times == Cardinality({i \in 1..Len(cbs) : cbs[i] = c})
                     IN  IF times = 0 THEN delivered[c]
                         ELSE delivered[c] \o [i \in 1..times |-> report]]
  /\ callbacks_' = << >>

\* Variant: the lifetime comparison is strict.
HasFreshCachedReport_Strict(cache_now_us) ==
  /\ cached_report_ # NullReport
  /\ cache_now_us - cache_timestamp_us_ < cache_lifetime_us_

\* Variant: a cached report is never taken as fresh.
HasFreshCachedReport_Never(cache_now_us) == FALSE

\* Variant: the age of the cached report is taken from the wall clock.
HasFreshCachedReport_WallClock(cache_now_us) ==
  /\ cached_report_ # NullReport
  /\ utc_us - cache_timestamp_us_ <= cache_lifetime_us_

\* Variant: a cached report never expires.
HasFreshCachedReport_NoExpiry(cache_now_us) ==
  cached_report_ # NullReport

\* The test of GetStatsReport for a fresh cached report.
HasFreshCachedReport(cache_now_us) ==
  /\ cached_report_ # NullReport
  /\ cache_now_us - cache_timestamp_us_ <= cache_lifetime_us_

\* Variant: gathering starts whenever there is no fresh cached report.
NotGathering_Always == TRUE

\* The test of GetStatsReport for "not already gathering stats".
NotGathering == num_pending_partial_reports_ = 0

(***************************************************************************)
(* GetStatsReport(callback), called on the signaling thread.               *)
(***************************************************************************)
GetStatsReport(callback) ==
  LET cbs == Append(callbacks_, callback)
      cache_now_us == time_us
      fresh == HasFreshCachedReport(cache_now_us)
      start == ~fresh /\ NotGathering
      Registered(path) ==
        [path |-> path,
         cycle |-> IF start THEN num_cycles + 1 ELSE num_cycles,
         cached |-> cached_report_,
         pending |-> num_pending_partial_reports_,
         age |-> cache_now_us - cache_timestamp_us_,
         since_start |-> cache_now_us - partial_report_timestamp_us_,
         since_completion |-> cache_now_us - completion_us,
         banned |-> invalidated,
         cleared_cycle |-> IF cleared_in_flight THEN num_cycles ELSE 0]
  IN  /\ num_requests' = num_requests + 1
      /\ invalidated' = {}
      /\ accessed_on' = accessed_on \cup {SignalingThread}
      /\ IF fresh
         THEN /\ DeliverCachedReport(cbs, cached_report_)
              /\ registration' =
                   [registration EXCEPT ![callback] = Registered("cached")]
              /\ UNCHANGED <<num_pending_partial_reports_,
                             partial_report_timestamp_us_, msgq, num_cycles,
                             produced, merged, utc_readings, faults>>
         ELSE IF start
         THEN LET timestamp_us == TimeUTCMicros(num_cycles + 1)
              IN
                /\ num_pending_partial_reports_' = NumPartialReports
                /\ partial_report_timestamp_us_' = cache_now_us
                /\ msgq' =
                     Post(Post(Post(msgq, SignalingThread,
                         Task("ProducePartialResultsOnSignalingThread",
                              timestamp_us, ReportId(num_cycles + 1, 1))),
                       worker_thread_,
                         Task("ProducePartialResultsOnWorkerThread",
                              timestamp_us, ReportId(num_cycles + 1, 2))),
                       network_thread_,
                         Task("ProducePartialResultsOnNetworkThread",
                              timestamp_us, ReportId(num_cycles + 1, 3)))
                /\ callbacks_' = cbs
                /\ registration' =
                     [registration EXCEPT ![callback] = Registered("started")]
                /\ num_cycles' = num_cycles + 1
                /\ produced' = [p \in Producers |-> << >>]
                /\ faults' = NoFaults
                /\ merged' = {}
                /\ utc_readings' = Append(utc_readings, utc_us)
                /\ UNCHANGED delivered
         ELSE /\ callbacks_' = cbs
              /\ registration' =
                   [registration EXCEPT ![callback] = Registered("joined")]
              /\ UNCHANGED <<num_pending_partial_reports_,
                             partial_report_timestamp_us_, msgq, num_cycles,
                             produced, merged, delivered, utc_readings,
                             faults>>
      /\ UNCHANGED <<cache_timestamp_us_, cache_lifetime_us_, cached_report_,
                     partial_report_, reports, worker_thread_,
                     network_thread_, time_us, utc_us, session,
                     completion_us, cleared_in_flight>>

\* A caller on the signaling thread asks for a report with a new callback.
Request ==
  /\ Running
  /\ num_requests < MaxCallbacks
  /\ GetStatsReport(num_requests + 1)
  /\ num_cycles' <= MaxCycles

(***************************************************************************)
(* ClearCachedStatsReport, called on the signaling thread.                 *)
(***************************************************************************)
\* Variant: the call leaves cached_report_ as it is.
ClearCachedStatsReport_Keeps ==
  /\ invalidated' = (Published \cup {cached_report_}) \ {NullReport}
  /\ cleared_in_flight' =
       (cleared_in_flight \/ num_pending_partial_reports_ > 0)
  /\ accessed_on' = accessed_on \cup {SignalingThread}
  /\ UNCHANGED <<collector_vars, env_vars, delivered, registration,
                 num_requests, num_cycles, produced, merged, completion_us,
                 utc_readings, faults>>

\* Variant: the call also abandons the gathering in progress.
ClearCachedStatsReport_Resets ==
  /\ cached_report_' = NullReport
  /\ partial_report_' = NullReport
  /\ num_pending_partial_reports_' = 0
  /\ invalidated' = (Published \cup {cached_report_}) \ {NullReport}
  /\ cleared_in_flight' =
       (cleared_in_flight \/ num_pending_partial_reports_ > 0)
  /\ accessed_on' = accessed_on \cup {SignalingThread}
  /\ UNCHANGED <<callbacks_, partial_report_timestamp_us_,
                 cache_timestamp_us_, cache_lifetime_us_, env_vars, delivered,
                 registration, num_requests, num_cycles, produced, merged,
                 completion_us, utc_readings, faults>>

ClearCachedStatsReport ==
  /\ Running
  /\ cached_report_' = NullReport
  /\ invalidated' = (Published \cup {cached_report_}) \ {NullReport}
  /\ cleared_in_flight' =
       (cleared_in_flight \/ num_pending_partial_reports_ > 0)
  /\ accessed_on' = accessed_on \cup {SignalingThread}
  /\ UNCHANGED <<callbacks_, num_pending_partial_reports_,
                 partial_report_timestamp_us_, cache_timestamp_us_,
                 cache_lifetime_us_, partial_report_, env_vars, delivered,
                 registration, num_requests, num_cycles, produced, merged,
                 completion_us, utc_readings, faults>>

(***************************************************************************)
(* AddPartialResults_s(partial_report), run by thread; heap and q are the  *)
(* report objects and the queues as the caller leaves them.                *)
(***************************************************************************)
\* The report object that accumulates: the first partial of the cycle.
Accumulator(partial_report) ==
  IF partial_report_ = NullReport THEN partial_report ELSE partial_report_

\* Variant: later partials are dropped instead of merged.
Accumulate_NoMerge(partial_report, heap) == heap

\* The report objects after partial_report_->TakeMembersFrom(partial_report),
\* which moves the members and leaves the victim empty.
Accumulate(partial_report, heap) ==
  IF partial_report_ = NullReport THEN heap
  ELSE [heap EXCEPT
          ![partial_report_] = TakeMembersFrom(@, heap[partial_report]),
          ![partial_report] = EmptyReport]

\* Variant: the count of pending partial reports is not decremented.
PendingAfter_NoDecrement == num_pending_partial_reports_

\* --num_pending_partial_reports_
PendingAfter == num_pending_partial_reports_ - 1

\* Variant: the report is published when one partial report is still pending.
NothingPending_OffByOne(pending) == pending <= 1

\* The test of AddPartialResults_s for the last partial report of a cycle.
NothingPending(pending) == pending = 0

\* Variant: partial_report_ keeps the report after it has been published.
AfterPublication_Kept(report) == report

\* partial_report_ = nullptr, after cached_report_ = partial_report_
AfterPublication(report) == NullReport

\* Variant: the cache timestamp is the time at which the cycle completes.
CacheTimestampAtCompletion_Now == time_us

\* cache_timestamp_us_ = partial_report_timestamp_us_
CacheTimestampAtCompletion == partial_report_timestamp_us_

AddPartialResults_s(thread, partial_report, heap, q) ==
  /\ num_pending_partial_reports_' = PendingAfter
  /\ reports' = Accumulate(partial_report, heap)
  /\ msgq' = q
  /\ merged' = merged \cup {partial_report}
  /\ accessed_on' = accessed_on \cup {thread}
  /\ IF NothingPending(num_pending_partial_reports_')
     THEN /\ cache_timestamp_us_' = CacheTimestampAtCompletion
          /\ cached_report_' = Accumulator(partial_report)
          /\ partial_report_' = AfterPublication(cached_report_')
          /\ DeliverCachedReport(callbacks_, cached_report_')
          /\ completion_us' = time_us
          /\ cleared_in_flight' = FALSE
     ELSE /\ partial_report_' = Accumulator(partial_report)
          /\ UNCHANGED <<cache_timestamp_us_, cached_report_, callbacks_,
                         delivered, completion_us, cleared_in_flight>>
  /\ UNCHANGED <<partial_report_timestamp_us_, cache_lifetime_us_,
                 worker_thread_, network_thread_, time_us, utc_us, session,
                 registration, num_requests, num_cycles, invalidated,
                 utc_readings>>

\* Variant: the partial report is merged on the thread that produced it.
AddPartialResults_Direct(thread, partial_report, heap, q) ==
  AddPartialResults_s(thread, partial_report, heap, q)

\* AddPartialResults: re-posted to the signaling thread unless already on it.
AddPartialResults(thread, partial_report, heap, q) ==
  IF thread # SignalingThread
  THEN /\ msgq' = Post(q, SignalingThread,
                       Task("AddPartialResults_s", 0, partial_report))
       /\ reports' = heap
       /\ UNCHANGED <<collector_vars, worker_thread_, network_thread_,
                      time_us, utc_us, session, delivered, registration,
                      num_requests, num_cycles, merged, completion_us,
                      invalidated, cleared_in_flight, accessed_on,
                      utc_readings>>
  ELSE AddPartialResults_s(thread, partial_report, heap, q)

(***************************************************************************)
(* The three producers, each run by the thread it was posted to.           *)
(***************************************************************************)
ProducePartialResultsOnSignalingThread ==
  /\ Running
  /\ HeadIs(SignalingThread, "ProducePartialResultsOnSignalingThread")
  /\ \E uaf \in UseAfterFreeOutcomes, dcheck_is_on \in DcheckIsOn :
       LET task == Head(msgq[SignalingThread])
           production ==
             IF session \in TabulatedSessions
             THEN SignalingPartials[task.timestamp_us, session, uaf,
                                    dcheck_is_on]
             ELSE SignalingPartial(task.timestamp_us, session, uaf,
                                   dcheck_is_on)
           report == production.report
       IN  /\ faults' = [collisions |-> production.collisions,
                         dcheck_failed |-> production.dcheck_failed,
                         aborted |-> production.aborted,
                         rewritten |-> production.rewritten]
           /\ IF production.aborted
              THEN UNCHANGED <<collector_vars, env_vars, delivered,
                               registration, num_requests, num_cycles,
                               produced, merged, completion_us, invalidated,
                               cleared_in_flight, accessed_on, utc_readings>>
              ELSE /\ produced' =
                        [produced EXCEPT !["signaling"] = Append(@, report)]
                   /\ AddPartialResults(SignalingThread, task.report,
                        [reports EXCEPT ![task.report] = report],
                        Popped(SignalingThread))

ProducePartialResultsOnWorkerThread ==
  /\ Running
  /\ HeadIs(worker_thread_, "ProducePartialResultsOnWorkerThread")
  /\ produced' = [produced EXCEPT !["worker"] = Append(@, EmptyReport)]
  /\ UNCHANGED faults
  /\ AddPartialResults(worker_thread_, Head(msgq[worker_thread_]).report,
                       [reports EXCEPT ![Head(msgq[worker_thread_]).report] =
                          EmptyReport],
                       Popped(worker_thread_))

ProducePartialResultsOnNetworkThread ==
  /\ Running
  /\ HeadIs(network_thread_, "ProducePartialResultsOnNetworkThread")
  /\ produced' = [produced EXCEPT !["network"] = Append(@, EmptyReport)]
  /\ UNCHANGED faults
  /\ AddPartialResults(network_thread_, Head(msgq[network_thread_]).report,
                       [reports EXCEPT ![Head(msgq[network_thread_]).report] =
                          EmptyReport],
                       Popped(network_thread_))

\* The signaling thread runs an AddPartialResults_s posted by another thread.
RunAddPartialResults_s ==
  /\ Running
  /\ HeadIs(SignalingThread, "AddPartialResults_s")
  /\ AddPartialResults_s(SignalingThread,
                         Head(msgq[SignalingThread]).report, reports,
                         Popped(SignalingThread))
  /\ UNCHANGED <<produced, faults>>

\* The monotonic clock advances.
AdvanceTime ==
  /\ time_us < MaxTime
  /\ time_us' = time_us + 1
  /\ UNCHANGED <<collector_vars, reports, msgq, worker_thread_,
                 network_thread_, utc_us, session, history_vars>>

Next ==
  \/ Request
  \/ ClearCachedStatsReport
  \/ ProducePartialResultsOnSignalingThread
  \/ ProducePartialResultsOnWorkerThread
  \/ ProducePartialResultsOnNetworkThread
  \/ RunAddPartialResults_s
  \/ AdvanceTime

Spec == Init /\ [][Next]_vars

\* Every thread eventually runs the task at the head of its queue.
FairSpec ==
  /\ Spec
  /\ WF_vars(ProducePartialResultsOnSignalingThread)
  /\ WF_vars(ProducePartialResultsOnWorkerThread)
  /\ WF_vars(ProducePartialResultsOnNetworkThread)
  /\ WF_vars(RunAddPartialResults_s)

(***************************************************************************)
(* The producers on their own: one GetStatsReport call on a collector      *)
(* whose three threads are one thread, as in RTCStatsCollectorTest, over   *)
(* any session of ProducerSessions.                                        *)
(***************************************************************************)
ProducerInit ==
  /\ callbacks_ = << >>
  /\ num_pending_partial_reports_ = 0
  /\ partial_report_timestamp_us_ = 0
  /\ cache_timestamp_us_ = 0
  /\ cache_lifetime_us_ = 0
  /\ cached_report_ = NullReport
  /\ partial_report_ = NullReport
  /\ reports = [r \in ReportIds |-> EmptyReport]
  /\ msgq = [t \in Threads |-> << >>]
  /\ worker_thread_ = SignalingThread
  /\ network_thread_ = SignalingThread
  /\ time_us = 0
  /\ utc_us = 0
  /\ session \in ProducerSessions
  /\ delivered = [c \in Callbacks |-> << >>]
  /\ registration = [c \in Callbacks |-> NoRegistration]
  /\ num_requests = 0
  /\ num_cycles = 0
  /\ produced = [p \in Producers |-> << >>]
  /\ merged = {}
  /\ completion_us = 0
  /\ invalidated = {}
  /\ cleared_in_flight = FALSE
  /\ accessed_on = {}
  /\ utc_readings = << >>
  /\ faults = NoFaults

\* The one GetStatsReport call.
CollectOnce ==
  /\ Running
  /\ num_requests = 0
  /\ GetStatsReport(1)

ProducerNext ==
  \/ CollectOnce
  \/ ProducePartialResultsOnSignalingThread
  \/ ProducePartialResultsOnWorkerThread
  \/ ProducePartialResultsOnNetworkThread

ProducerSpec == ProducerInit /\ [][ProducerNext]_vars

(***************************************************************************)
(* The whole collector over the sessions with data missing, the worker and *)
(* network threads being the signaling thread or two threads of their own, *)
(* every thread eventually running the task at the head of its queue.      *)
(***************************************************************************)
AbsenceInit ==
  /\ callbacks_ = << >>
  /\ num_pending_partial_reports_ = 0
  /\ partial_report_timestamp_us_ = 0
  /\ cache_timestamp_us_ = 0
  /\ cache_lifetime_us_ \in 0..MaxLifetime
  /\ cached_report_ = NullReport
  /\ partial_report_ = NullReport
  /\ reports = [r \in ReportIds |-> EmptyReport]
  /\ msgq = [t \in Threads |-> << >>]
  /\ \E c \in {<<1, 1>>, <<2, 3>>} :
       worker_thread_ = c[1] /\ network_thread_ = c[2]
  /\ time_us = 0
  /\ utc_us = 0
  /\ session \in AbsenceSessions
  /\ delivered = [c \in Callbacks |-> << >>]
  /\ registration = [c \in Callbacks |-> NoRegistration]
  /\ num_requests = 0
  /\ num_cycles = 0
  /\ produced = [p \in Producers |-> << >>]
  /\ merged = {}
  /\ completion_us = 0
  /\ invalidated = {}
  /\ cleared_in_flight = FALSE
  /\ accessed_on = {}
  /\ utc_readings = << >>
  /\ faults = NoFaults

AbsenceSpec ==
  /\ AbsenceInit
  /\ [][Next]_vars
  /\ WF_vars(ProducePartialResultsOnSignalingThread)
  /\ WF_vars(ProducePartialResultsOnWorkerThread)
  /\ WF_vars(ProducePartialResultsOnNetworkThread)
  /\ WF_vars(RunAddPartialResults_s)

TypeOK ==
  /\ num_pending_partial_reports_ \in 0..NumPartialReports
  /\ cached_report_ \in ReportIds \cup {NullReport}
  /\ partial_report_ \in ReportIds \cup {NullReport}


(***************************************************************************)
(* Properties.                                                             *)
(***************************************************************************)
Registered(c) == registration[c].path # "none"

Waiting(c) == \E i \in 1..Len(callbacks_) : callbacks_[i] = c

Served(c) == delivered[c] # << >>

\* The tasks posted and not yet run: producers and re-posted contributions.
OutstandingTasks ==
  Len(msgq[1]) + Len(msgq[2]) + Len(msgq[3])

\* The union of the partials the three producers built in this cycle.
UnionOfPartials ==
  LET parts == {produced[p][1] : p \in Producers}
      ids == UNION {DOMAIN part : part \in parts}
  IN  [x \in ids |-> (CHOOSE part \in parts : x \in DOMAIN part)[x]]

PartialsDisjoint ==
  \A p, q \in Producers :
    p # q => DOMAIN produced[p][1] \cap DOMAIN produced[q][1] = {}

\* C1: single-flight.  A GetStatsReport step taken while
\* num_pending_partial_reports_ > 0 posts no task and starts no cycle, and in
\* every reachable state the outstanding tasks are exactly the pending partial
\* reports of one cycle, at most three.
C1_SingleFlight ==
  /\ [][(num_requests' = num_requests + 1 /\ num_pending_partial_reports_ > 0)
          => (msgq' = msgq /\ num_cycles' = num_cycles
              /\ UNCHANGED num_pending_partial_reports_)]_vars
  /\ [](/\ OutstandingTasks = num_pending_partial_reports_
        /\ OutstandingTasks <= NumPartialReports)

\* A callback was taken while a cycle was running and the cycle still runs.
C1_Witness ==
  /\ num_pending_partial_reports_ > 0
  /\ \E c \in Callbacks :
       registration[c].path = "joined" /\ registration[c].pending > 0

\* C2: when a cycle completes, every callback waiting at that moment (the one
\* that started the cycle and those that joined it) receives one and the same
\* report object, the one stored in cached_report_ by that step.
C2_SameInstance ==
  [][(num_pending_partial_reports_ > 0 /\ num_pending_partial_reports_' = 0)
       => /\ cached_report_' # NullReport
          /\ \A c \in Callbacks :
               Waiting(c) => delivered'[c] = Append(delivered[c], cached_report_')]_vars

\* Two callbacks of one cycle, one that started it and one that joined it,
\* hold the cached report.
C2_Witness ==
  \E a, b \in Callbacks :
    /\ registration[a].path = "started"
    /\ registration[b].path = "joined"
    /\ registration[a].cycle = registration[b].cycle
    /\ delivered[a] = <<cached_report_>>
    /\ delivered[b] = <<cached_report_>>

\* C3: no callback receives OnStatsDelivered more than once, and a callback
\* that has been served is no longer in callbacks_.
C3_AtMostOnce ==
  \A c \in Callbacks :
    /\ Len(delivered[c]) <= 1
    /\ Served(c) => ~Waiting(c)

\* Two deliveries have happened, one at the end of a cycle and a later one
\* from the cache.
C3_Witness ==
  \E a, b \in Callbacks :
    /\ registration[a].path = "started" /\ Served(a)
    /\ registration[b].path = "cached" /\ Served(b)

\* No partial report is pending and every callback GetStatsReport took so far
\* has been served.
AllServed ==
  /\ num_pending_partial_reports_ = 0
  /\ \A c \in Callbacks : Registered(c) => Served(c)

\* C4: under FairSpec every callback GetStatsReport took is eventually served
\* and every cycle that started eventually has no pending partial report.
\* Stated as: again and again nothing is pending and every callback taken so
\* far has been served (a callback once served stays served, so this gives
\* each callback its delivery and each cycle its completion).
C4_EventualDelivery == []<>AllServed

\* A callback that joined a running cycle has been served and nothing is
\* pending.
C4_Witness ==
  /\ num_pending_partial_reports_ = 0
  /\ \E c \in Callbacks : registration[c].path = "joined" /\ Served(c)

\* C5: while a cycle runs none of its callbacks has been served; once it has
\* completed, each of the three producers has run exactly once for it, the
\* three partials have been merged, no id occurs in two of them, and the report
\* its callbacks received holds exactly the union of the three partials.
C5_NoPartialSnapshot ==
  \A c \in Callbacks :
    (Registered(c) /\ registration[c].cycle = num_cycles)
    => IF num_pending_partial_reports_ > 0
       THEN ~Served(c)
       ELSE /\ \A p \in Producers : Len(produced[p]) = 1
            /\ Cardinality(merged) = NumPartialReports
            /\ PartialsDisjoint
            /\ Served(c)
            /\ reports[delivered[c][1]] = UnionOfPartials

\* A cycle over a session with transport stats has completed: three report
\* objects were merged and the one delivered holds several records.
C5_Witness ==
  /\ num_pending_partial_reports_ = 0
  /\ session.ok
  /\ \E c \in Callbacks :
       /\ registration[c].path = "started" /\ Served(c)
       /\ registration[c].cycle = num_cycles
       /\ Cardinality(DOMAIN reports[delivered[c][1]]) > 1
       /\ Cardinality(merged) = NumPartialReports
       /\ delivered[c][1] \in merged

\* C6 as claimed: a GetStatsReport call made with a cached report present, no
\* cycle running and at most cache_lifetime_us_ after the completion of the
\* cycle that built it is served that cached report and starts no cycle.
C6_Original ==
  \A c \in Callbacks :
    (/\ Registered(c)
     /\ registration[c].cached # NullReport
     /\ registration[c].pending = 0
     /\ registration[c].since_completion <= cache_lifetime_us_)
    => /\ registration[c].path = "cached"
       /\ delivered[c] = <<registration[c].cached>>

\* C6 as amended: the lifetime counts from the monotonic time read by the
\* GetStatsReport call that started the cycle.  A call made with a cached
\* report present, no cycle running and at most cache_lifetime_us_ after that
\* time is served the cached report at once and starts no cycle.
C6_CacheHitFromStart ==
  \A c \in Callbacks :
    (/\ Registered(c)
     /\ registration[c].cached # NullReport
     /\ registration[c].pending = 0
     /\ registration[c].since_start <= cache_lifetime_us_)
    => /\ registration[c].path = "cached"
       /\ delivered[c] = <<registration[c].cached>>
       /\ \E a \in Callbacks :
            /\ a < c
            /\ registration[a].cycle = registration[c].cycle
            /\ delivered[a] = delivered[c]

\* A second call within the lifetime was served the report of the first.
C6_Witness ==
  \E a, c \in Callbacks :
    /\ registration[a].path = "started"
    /\ registration[c].path = "cached"
    /\ registration[c].since_start <= cache_lifetime_us_
    /\ Served(a) /\ delivered[a] = delivered[c]

\* C7: a GetStatsReport call made with a cached report present but expired
\* (now - cache_timestamp_us_ > cache_lifetime_us_) and no cycle running
\* starts a new cycle, and the report its callback receives is another object
\* than the expired one.
C7_CacheExpiry ==
  \A c \in Callbacks :
    (/\ Registered(c)
     /\ registration[c].cached # NullReport
     /\ registration[c].pending = 0
     /\ registration[c].age > cache_lifetime_us_)
    => /\ registration[c].path = "started"
       /\ ~Served(c) => num_pending_partial_reports_ > 0
       /\ Served(c) => delivered[c][1] # registration[c].cached

\* A callback taken after the cached report expired has been served.
C7_Witness ==
  \E c \in Callbacks :
    /\ registration[c].cached # NullReport
    /\ registration[c].age > cache_lifetime_us_
    /\ registration[c].path = "started"
    /\ Served(c)

\* C8: the first GetStatsReport call after a ClearCachedStatsReport never
\* receives a report that was cached or delivered before that invalidation.
C8_Invalidation ==
  \A c \in Callbacks :
    \A i \in 1..Len(delivered[c]) :
      delivered[c][i] \notin registration[c].banned

\* A callback taken after an invalidation, within the lifetime of the report
\* that was invalidated, has been served.
C8_Witness ==
  \E c \in Callbacks :
    /\ registration[c].banned # {}
    /\ registration[c].cached = NullReport
    /\ registration[c].age <= cache_lifetime_us_
    /\ Served(c)

\* C9: a ClearCachedStatsReport step sets cached_report_ to null and changes
\* nothing else of the collector, the queues or the report objects; and under
\* FairSpec a cycle during which the cache was cleared still completes with
\* every callback taken until then served.
C9_ClearFrame ==
  /\ [][ClearCachedStatsReport
          => /\ cached_report_' = NullReport
             /\ UNCHANGED <<callbacks_, num_pending_partial_reports_,
                            partial_report_, partial_report_timestamp_us_,
                            cache_timestamp_us_, cache_lifetime_us_, reports,
                            msgq, delivered>>]_vars
  /\ cleared_in_flight ~> AllServed

\* The cache held a report and was cleared during a cycle; the cycle still
\* has its accumulator, its pending count and its waiting callback.
C9_Witness ==
  /\ cleared_in_flight
  /\ invalidated # {}
  /\ cached_report_ = NullReport
  /\ partial_report_ # NullReport
  /\ num_pending_partial_reports_ > 0
  /\ \E c \in Callbacks : Waiting(c)

\* C10: when a callback starts a new cycle every callback taken before it has
\* already been served, and two served callbacks hold the same report object
\* exactly when they were served by the same cycle; so a callback that starts
\* a later cycle receives another object than every earlier callback.
C10_CycleOrdering ==
  \A a, b \in Callbacks :
    a < b
    => /\ registration[b].path = "started" => Served(a)
       /\ (Served(a) /\ Served(b))
            => (delivered[a][1] = delivered[b][1]
                  <=> registration[a].cycle = registration[b].cycle)

\* A callback started a second cycle after the cached report of the first
\* expired, and both have been served.
C10_Witness ==
  \E a, b \in Callbacks :
    /\ a < b
    /\ registration[a].path = "started"
    /\ registration[b].path = "started"
    /\ registration[b].cached # NullReport
    /\ registration[b].age > cache_lifetime_us_
    /\ Served(a) /\ Served(b)
    /\ delivered[a] # delivered[b]

\* C11 as claimed: the GetStatsReport step that takes a callback never calls
\* OnStatsDelivered on that callback; the delivery always comes in a later
\* step.
C11_Original ==
  [][num_requests' = num_requests + 1
       => delivered'[num_requests + 1] = << >>]_vars

\* C11 as amended: the GetStatsReport step that takes a callback calls
\* OnStatsDelivered on it before returning exactly when a fresh cached report
\* exists (cached_report_ set and now - cache_timestamp_us_ <=
\* cache_lifetime_us_), and then with that cached report and without posting
\* a task; in every other case the callback is still waiting when the call
\* returns and is served by a later step.
C11_AsyncUnlessCached ==
  [][num_requests' = num_requests + 1
       => LET c == num_requests + 1
              fresh == /\ cached_report_ # NullReport
                       /\ time_us - cache_timestamp_us_ <= cache_lifetime_us_
          IN  IF fresh
              THEN /\ delivered'[c] = <<cached_report_>>
                   /\ msgq' = msgq
                   /\ callbacks_' = << >>
              ELSE /\ delivered'[c] = << >>
                   /\ callbacks_' = Append(callbacks_, c)]_vars

\* A callback was served from the cache inside its GetStatsReport call: no
\* task is posted, nothing is pending and no callback waits.
C11_Witness ==
  /\ OutstandingTasks = 0
  /\ callbacks_ = << >>
  /\ \E c \in Callbacks :
       /\ registration[c].path = "cached"
       /\ delivered[c] = <<cached_report_>>

\* C12: the collector's state is read and written, and OnStatsDelivered is
\* called, on the signaling thread only.  A producer that runs on another
\* thread changes none of the collector's state and delivers nothing; its
\* partial report is posted to the signaling thread, which merges it.
C12_SingleWriter ==
  /\ [](accessed_on \subseteq {SignalingThread})
  /\ [][((ProducePartialResultsOnWorkerThread
            /\ worker_thread_ # SignalingThread)
         \/ (ProducePartialResultsOnNetworkThread
               /\ network_thread_ # SignalingThread))
        => /\ UNCHANGED <<collector_vars, delivered>>
           /\ Len(msgq'[SignalingThread]) = Len(msgq[SignalingThread]) + 1
           /\ msgq'[SignalingThread][Len(msgq'[SignalingThread])].handler
                = "AddPartialResults_s"]_vars

\* The partial reports of a worker thread and a network thread that are not
\* the signaling thread have been merged.
C12_Witness ==
  /\ worker_thread_ # SignalingThread
  /\ network_thread_ # SignalingThread
  /\ num_cycles > 0
  /\ {ReportId(num_cycles, 2), ReportId(num_cycles, 3)} \subseteq merged
  /\ accessed_on = {SignalingThread}

\* Some partial report of the current cycle has not been merged.
NotContributed ==
  /\ num_cycles > 0
  /\ \E k \in 1..NumPartialReports : ReportId(num_cycles, k) \notin merged

\* C13: as long as one of the three partial reports of a cycle has not been
\* contributed, num_pending_partial_reports_ is positive, every callback
\* taken since the cycle started is waiting and unserved, and no step, be it
\* GetStatsReport, ClearCachedStatsReport or a clock advance, starts another
\* cycle or posts another producer.
C13_Stall ==
  /\ [](NotContributed
          => /\ num_pending_partial_reports_ > 0
             /\ \A c \in Callbacks :
                  (Registered(c) /\ registration[c].cycle = num_cycles)
                  => (Waiting(c) /\ ~Served(c)))
  /\ [][NotContributed
          => /\ num_cycles' = num_cycles
             /\ OutstandingTasks' <= OutstandingTasks
             /\ (Request \/ ClearCachedStatsReport \/ AdvanceTime)
                  => UNCHANGED <<num_pending_partial_reports_, msgq,
                                 delivered>>]_vars

\* During an unfinished cycle the cache was cleared, the clock went past the
\* cache lifetime and a further callback was taken; it waits.
C13_Witness ==
  /\ NotContributed
  /\ cleared_in_flight
  /\ time_us - partial_report_timestamp_us_ > cache_lifetime_us_
  /\ \E c \in Callbacks :
       /\ registration[c].path = "joined"
       /\ registration[c].since_start > cache_lifetime_us_
       /\ Waiting(c)

\* C14: no step changes the records of a report that has been delivered or is
\* cached; the accumulator partial_report_ is never a report that has been
\* delivered or cached, and it is null whenever no partial report of a cycle
\* has been merged yet, so the first contribution of each cycle starts a new
\* accumulator.
C14_Immutable ==
  /\ [][\A r \in ReportIds :
          (r \in Published \/ r = cached_report_) => reports'[r] = reports[r]]_vars
  /\ [](/\ partial_report_ # NullReport
          => (partial_report_ \notin Published
              /\ partial_report_ # cached_report_)
        /\ num_pending_partial_reports_ \in {0, NumPartialReports}
          => partial_report_ = NullReport)

\* A second cycle is accumulating into a new report object while the report
\* of the first cycle, with its records, is still held by a callback.
C14_Witness ==
  /\ partial_report_ # NullReport
  /\ \E c \in Callbacks :
       /\ Served(c)
       /\ delivered[c][1] # partial_report_
       /\ Cardinality(DOMAIN reports[delivered[c][1]]) > 1
       /\ Cardinality(DOMAIN reports[partial_report_]) > 1

(***************************************************************************)
(* Properties of the producers, stated on the report the signaling         *)
(* producer built for the session.                                         *)
(***************************************************************************)
SignalingProduced == produced["signaling"] # << >>

SignalingReport == produced["signaling"][1]

\* The connection infos the producer walks, in order.
SessionInfos ==
  IF session.ok THEN ConnectionInfos(session.transport_stats, 1, 1) ELSE << >>

\* The certificate chains the producer walks.
SessionChains ==
  IF session.ok
  THEN {session.transport_stats[i].local_certificate :
          i \in 1..Len(session.transport_stats)}
       \cup {session.transport_stats[i].remote_certificate :
               i \in 1..Len(session.transport_stats)}
  ELSE {}

CertificateId(fingerprint) == "RTCCertificate_" \o fingerprint

RecordsOfType(report, types) ==
  {x \in DOMAIN report : report[x].type \in types}

\* No fingerprint occurs twice in the certificate chains of the session.
DistinctFingerprints ==
  \A c, d \in SessionChains :
    \A i \in 1..Len(c), j \in 1..Len(d) :
      c[i].fingerprint = d[j].fingerprint => (c = d /\ i = j)

\* C15 as claimed, for the sessions whose certificates have distinct
\* fingerprints and whose candidates pass the RTC_DCHECK_EQ of
\* ProduceIceCandidateStats_s: whatever connection infos the session has, two
\* with the same local and remote candidate ids included, the producers never
\* pass AddStats an id that the report already holds.
C15_Original ==
  (SignalingProduced /\ DistinctFingerprints /\ ~faults.dcheck_failed)
  => faults.collisions = {}

\* No fingerprint occurs twice in one certificate chain.
ChainsWithoutRepetition ==
  \A c \in SessionChains :
    \A i, j \in 1..Len(c) : c[i].fingerprint = c[j].fingerprint => i = j

\* C16 as claimed: when chains of the session share a fingerprint (none
\* repeats one), after production every certificate of every chain has its
\* record "RTCCertificate_<fingerprint>" and AddStats was never passed a
\* certificate id that the report already held.
C16_Original ==
  (SignalingProduced /\ ChainsWithoutRepetition)
  => \A chain \in SessionChains :
       \A i \in 1..Len(chain) :
         LET id == CertificateId(chain[i].fingerprint)
         IN  /\ Has(SignalingReport, id)
             /\ SignalingReport[id].m.fingerprint = chain[i].fingerprint
             /\ id \notin faults.collisions

\* C17: for every list of connection infos, after production the report holds
\* one record "RTCIceCandidate_<id>" for each candidate id of the list and no
\* other candidate record, AddStats was passed each candidate id once, and
\* the pair record of every connection info names the records of its two
\* candidates in local_candidate_id and remote_candidate_id.
C17_CandidateDedup ==
  SignalingProduced
  => /\ RecordsOfType(SignalingReport, {"local-candidate", "remote-candidate"})
          = {IceCandidateStatsId(SessionInfos[i].local_candidate) :
               i \in 1..Len(SessionInfos)}
            \cup {IceCandidateStatsId(SessionInfos[i].remote_candidate) :
                    i \in 1..Len(SessionInfos)}
     /\ \A i \in 1..Len(SessionInfos) :
          LET info == SessionInfos[i]
              local == "RTCIceCandidate_" \o info.local_candidate.id
              remote == "RTCIceCandidate_" \o info.remote_candidate.id
              pair == Get(SignalingReport, IceCandidatePairStatsId(info))
          IN  /\ Has(SignalingReport, local)
              /\ Has(SignalingReport, remote)
              /\ local \notin faults.collisions
              /\ remote \notin faults.collisions
              /\ Has(SignalingReport, IceCandidatePairStatsId(info))
              /\ pair.m.local_candidate_id = SignalingReport[local].id
              /\ pair.m.remote_candidate_id = SignalingReport[remote].id

\* Two connection infos with one local candidate and two remote candidates
\* have been turned into two pairs and three candidates, and delivered.
C17_Witness ==
  /\ Served(1)
  /\ \E i, j \in 1..Len(SessionInfos) :
       /\ SessionInfos[i].local_candidate = SessionInfos[j].local_candidate
       /\ SessionInfos[i].remote_candidate.id
            # SessionInfos[j].remote_candidate.id
  /\ Cardinality(RecordsOfType(reports[delivered[1][1]],
                               {"candidate-pair"})) = 2
  /\ Cardinality(RecordsOfType(reports[delivered[1][1]],
                               {"local-candidate", "remote-candidate"})) = 3

PairMemberNames ==
  {"local_candidate_id", "remote_candidate_id", "writable", "bytes_sent",
   "bytes_received", "current_rtt", "requests_sent", "responses_received",
   "responses_sent"}

\* C19: every connection info has its candidate-pair record, and every
\* candidate-pair record has exactly the members local_candidate_id,
\* remote_candidate_id, writable, bytes_sent, bytes_received, current_rtt,
\* requests_sent, responses_received and responses_sent defined, with the
\* values of the connection info that created it (the first one with its id);
\* current_rtt is rtt thousandths of a second, and a value of zero or false is
\* defined like any other.
C19_PairFields ==
  SignalingProduced
  => /\ \A i \in 1..Len(SessionInfos) :
          Has(SignalingReport, IceCandidatePairStatsId(SessionInfos[i]))
     /\ \A x \in RecordsOfType(SignalingReport, {"candidate-pair"}) :
          /\ DOMAIN SignalingReport[x].m = PairMemberNames
          /\ \E i \in 1..Len(SessionInfos) :
               LET info == SessionInfos[i]
                   m == SignalingReport[x].m
               IN  /\ x = IceCandidatePairStatsId(info)
                   /\ \A j \in 1..(i - 1) :
                        IceCandidatePairStatsId(SessionInfos[j]) # x
                   /\ m.local_candidate_id
                        = "RTCIceCandidate_" \o info.local_candidate.id
                   /\ m.remote_candidate_id
                        = "RTCIceCandidate_" \o info.remote_candidate.id
                   /\ m.writable = info.writable
                   /\ m.bytes_sent = info.sent_total_bytes
                   /\ m.bytes_received = info.recv_total_bytes
                   /\ m.current_rtt.thousandths = info.rtt
                   /\ m.requests_sent = info.sent_ping_requests_total
                   /\ m.responses_received = info.recv_ping_responses
                   /\ m.responses_sent = info.sent_ping_responses

\* A connection info with rtt 1337 ms, 42 bytes sent and 1234 received, and
\* one that is not writable with every byte count zero, have their pair
\* records in the delivered report.
C19_Witness ==
  /\ Served(1)
  /\ \E x, y \in RecordsOfType(reports[delivered[1][1]], {"candidate-pair"}) :
       LET m == reports[delivered[1][1]][x].m
           n == reports[delivered[1][1]][y].m
       IN  /\ m.writable /\ m.bytes_sent = 42 /\ m.bytes_received = 1234
           /\ m.current_rtt.thousandths = 1337
           /\ ~n.writable /\ n.bytes_sent = 0 /\ n.bytes_received = 0
           /\ n.responses_sent = 0

\* C20: every delivered report holds exactly one peer-connection record, with
\* id "RTCPeerConnection"; its data_channels_opened is the number of data
\* channels in state open, its data_channels_closed is the number of the
\* others, a count that did not wrap around, and the two add up to the number
\* of data channels.
C20_PeerConnection ==
  \A c \in Callbacks :
    Served(c)
    => LET report == reports[delivered[c][1]]
           opened == Cardinality({i \in 1..Len(session.data_channels) :
                                    session.data_channels[i] = "open"})
       IN  /\ RecordsOfType(report, {"peer-connection"}) = {"RTCPeerConnection"}
           /\ report["RTCPeerConnection"].id = "RTCPeerConnection"
           /\ DOMAIN report["RTCPeerConnection"].m
                = {"data_channels_opened", "data_channels_closed"}
           /\ report["RTCPeerConnection"].m.data_channels_opened = opened
           /\ report["RTCPeerConnection"].m.data_channels_closed
                = Len(session.data_channels) - opened
           /\ report["RTCPeerConnection"].m.data_channels_closed \in Nat

\* Reports have been delivered for a session with no data channel, and for a
\* session with two of which one is open (the witness holds in the second).
C20_Witness ==
  /\ Served(1)
  /\ Len(session.data_channels) = 2
  /\ reports[delivered[1][1]]["RTCPeerConnection"].m.data_channels_opened = 1
  /\ reports[delivered[1][1]]["RTCPeerConnection"].m.data_channels_closed = 1

\* The signaling producer has been run: it handed over its report, or the
\* process ended inside it.
ProducerRan == SignalingProduced \/ faults.aborted

\* The candidates the producer walks, in order: local, then remote, of each
\* connection info.
SessionCandidates ==
  [k \in 1..(2 * Len(SessionInfos)) |->
     IF k % 2 = 1 THEN SessionInfos[(k + 1) \div 2].local_candidate
     ELSE SessionInfos[k \div 2].remote_candidate]

\* The first candidate the producer meets for a candidate record id.
CreatedFrom(x) ==
  SessionCandidates[
    CHOOSE k \in 1..Len(SessionCandidates) :
      /\ IceCandidateStatsId(SessionCandidates[k]) = x
      /\ \A j \in 1..(k - 1) : IceCandidateStatsId(SessionCandidates[j]) # x]

\* The candidate types of the stats dictionary for the four type tags.
RTCIceCandidateType ==
  (LOCAL_PORT_TYPE :> "host") @@ (STUN_PORT_TYPE :> "srflx")
    @@ (PRFLX_PORT_TYPE :> "prflx") @@ (RELAY_PORT_TYPE :> "relay")

\* Some candidate that needs a record of its own carries none of the four
\* type tags.
OtherTypeTag ==
  \E k \in 1..Len(SessionCandidates) :
    /\ SessionCandidates[k].type \notin DOMAIN RTCIceCandidateType
    /\ \A j \in 1..(k - 1) :
         SessionCandidates[j].id # SessionCandidates[k].id

SharedCandidateId ==
  \E i, j \in 1..Len(SessionInfos) :
    SessionInfos[i].local_candidate.id = SessionInfos[j].remote_candidate.id

\* C22 as claimed: when a local and a remote candidate of the session have
\* the same id (and every candidate has one of the four type tags), the
\* producer does not fail, and for every connection info the record named by
\* the pair's local_candidate_id is a local candidate record and the record
\* named by its remote_candidate_id is a remote candidate record.
C22_Original ==
  (ProducerRan /\ SharedCandidateId /\ ~OtherTypeTag)
  => /\ ~faults.aborted
     /\ ~faults.dcheck_failed
     /\ SignalingProduced
     /\ \A i \in 1..Len(SessionInfos) :
          LET pair == Get(SignalingReport,
                          IceCandidatePairStatsId(SessionInfos[i]))
          IN  /\ Get(SignalingReport, pair.m.local_candidate_id).type
                   = "local-candidate"
              /\ Get(SignalingReport, pair.m.remote_candidate_id).type
                   = "remote-candidate"

\* The ids of the certificate records the chains of the session call for; a
\* transport without a local or without a remote certificate has the empty
\* chain there, which calls for none.
ChainCertificateIds ==
  UNION {{CertificateId(chain[i].fingerprint) : i \in 1..Len(chain)} :
           chain \in SessionChains}

\* C23: once the signaling producer of a cycle has run, its partial report
\* holds the peer-connection record; when GetTransportStats returned false it
\* holds no certificate, candidate or candidate-pair record, whatever
\* session_stats contains; otherwise its certificate records are exactly
\* those of the certificates present, a missing local or remote certificate
\* adding none; the producer never fails, and its report has been merged.
\* And whenever partial reports are pending, the cycle completes and every
\* callback taken until then is served.
C23_AbsenceOfData ==
  /\ [](/\ ~faults.aborted /\ ~faults.dcheck_failed
        /\ SignalingProduced
             => /\ Has(SignalingReport, "RTCPeerConnection")
                /\ ReportId(num_cycles, 1) \in merged
                /\ ~session.ok
                     => DOMAIN SignalingReport = {"RTCPeerConnection"}
                /\ RecordsOfType(SignalingReport, {"certificate"})
                     = ChainCertificateIds)
  /\ (num_pending_partial_reports_ > 0) ~> AllServed

\* GetTransportStats returned false, with transports left in session_stats;
\* a callback that started a cycle and one that joined it have been served a
\* report that holds the peer-connection record and nothing else.
C23_Witness ==
  /\ ~session.ok
  /\ session.transport_stats # << >>
  /\ \E a, b \in Callbacks :
       /\ registration[a].path = "started"
       /\ registration[b].path = "joined"
       /\ Served(a) /\ Served(b)
       /\ delivered[a] = delivered[b]
       /\ DOMAIN reports[delivered[a][1]] = {"RTCPeerConnection"}

\* C24 as claimed: no producer writes a field of a record after AddStats has
\* taken the record; every field of a certificate record,
\* issuer_certificate_id included, has its final value when it is inserted.
C24_Original == ProducerRan => faults.rewritten = {}

\* The certificates of the session's chains that have an issuer in their
\* chain, with the member that names it.
IssuerLinks ==
  UNION {{<<CertificateId(chain[i].fingerprint), "issuer_certificate_id">> :
            i \in 1..(Len(chain) - 1)} : chain \in SessionChains}

\* C24 as amended: the one write to a record that AddStats has taken is
\* prev_stats->issuer_certificate_id = stats->id() in the next turn of the
\* chain loop: only certificate records that have an issuer in their chain
\* are written, only in issuer_certificate_id, and with distinct fingerprints
\* each of them is; candidate, candidate-pair and peer-connection records are
\* never written after insertion.  Once a report has been handed to
\* AddPartialResults_s no step changes any of its records.
C24_WrittenOnlyByChainLoop ==
  /\ [](ProducerRan
          => /\ faults.rewritten \subseteq IssuerLinks
             /\ DistinctFingerprints => faults.rewritten = IssuerLinks
             /\ SignalingProduced
                  => \A w \in faults.rewritten :
                       SignalingReport[w[1]].type = "certificate")
  /\ [][\A r \in merged : \A x \in DOMAIN reports[r] :
          \E q \in ReportIds :
            x \in DOMAIN reports'[q] /\ reports'[q][x] = reports[r][x]]_vars

\* A local chain of two certificates has been collected: the record of the
\* first was written after its insertion and names the second in the
\* delivered report.
C24_Witness ==
  /\ Served(1)
  /\ \E w \in faults.rewritten :
       /\ w[1] \in DOMAIN reports[delivered[1][1]]
       /\ "issuer_certificate_id" \in DOMAIN reports[delivered[1][1]][w[1]].m
       /\ reports[delivered[1][1]][w[1]].m.issuer_certificate_id # w[1]
  /\ \E i \in 1..Len(session.transport_stats) :
       Len(session.transport_stats[i].local_certificate) = 2

\* The step completes a cycle: it takes the last pending partial report.
CompletesCycle ==
  num_pending_partial_reports_ > 0 /\ num_pending_partial_reports_' = 0

\* C25: the GetStatsReport step that dispatches a cycle stores the monotonic
\* time it read in partial_report_timestamp_us_, and no other step changes
\* it, a GetStatsReport that joins the cycle and the completing step
\* included; the step that completes the cycle copies it to
\* cache_timestamp_us_, and no other step changes cache_timestamp_us_.
C25_AgeFromCycleStart ==
  /\ [][IF num_cycles' = num_cycles + 1
        THEN partial_report_timestamp_us_' = time_us
        ELSE UNCHANGED partial_report_timestamp_us_]_vars
  /\ [][IF CompletesCycle
        THEN cache_timestamp_us_' = partial_report_timestamp_us_
        ELSE UNCHANGED cache_timestamp_us_]_vars

\* A cycle dispatched at one time was joined and completed at a later time;
\* the cache timestamp is the time of the dispatch.
C25_Witness ==
  /\ cached_report_ # NullReport
  /\ cache_timestamp_us_ < completion_us
  /\ cache_timestamp_us_ = partial_report_timestamp_us_
  /\ \E a, c \in Callbacks :
       /\ registration[a].path = "started"
       /\ registration[c].path = "joined"
       /\ registration[c].cycle = registration[a].cycle
       /\ registration[c].since_start > 0
       /\ delivered[a] = <<cached_report_>>
       /\ delivered[c] = <<cached_report_>>

\* C26: a GetStatsReport step serves the cached report exactly when
\* cached_report_ is set and now - cache_timestamp_us_ <= cache_lifetime_us_;
\* such a step leaves num_pending_partial_reports_, cached_report_ and
\* cache_timestamp_us_ as they are, posts nothing and leaves callbacks_
\* empty.  So a call made exactly cache_lifetime_us_ after the cache
\* timestamp, at the very instant of the cycle's start when the lifetime is
\* 0, is served from the cache.
C26_InclusiveBoundary ==
  /\ [][num_requests' = num_requests + 1
        => LET c == num_requests + 1
               hit == /\ cached_report_ # NullReport
                      /\ time_us - cache_timestamp_us_ <= cache_lifetime_us_
           IN  /\ (registration'[c].path = "cached") <=> hit
               /\ hit => /\ delivered'[c] = <<cached_report_>>
                          /\ callbacks_' = << >>
                          /\ UNCHANGED <<num_pending_partial_reports_,
                                         cached_report_, cache_timestamp_us_,
                                         msgq>>]_vars
  /\ [](\A c \in Callbacks :
          (/\ Registered(c)
           /\ registration[c].cached # NullReport
           /\ registration[c].age = cache_lifetime_us_)
          => /\ registration[c].path = "cached"
             /\ delivered[c] = <<registration[c].cached>>)

\* A call made exactly cache_lifetime_us_ after the cache timestamp was
\* served the cached report; nothing is pending and no callback waits.
C26_Witness ==
  /\ num_pending_partial_reports_ = 0
  /\ callbacks_ = << >>
  /\ \E c \in Callbacks :
       /\ registration[c].path = "cached"
       /\ registration[c].age = cache_lifetime_us_
       /\ registration[c].pending = 0
       /\ delivered[c] = <<registration[c].cached>>

\* The step runs AddPartialResults_s: it takes one more partial report.
RunsAddPartialResults_s == merged' # merged /\ merged' # {}

\* C27: num_pending_partial_reports_ is always 0, 1, 2 or 3; partial_report_
\* is set only when it is 1 or 2 and is null whenever it is 0; every run of
\* AddPartialResults_s starts with num_pending_partial_reports_ > 0 and
\* takes it down by one; and the partial reports merged so far in a cycle
\* and those pending are three together.
C27_PendingCount ==
  /\ [](/\ num_pending_partial_reports_ \in 0..NumPartialReports
        /\ partial_report_ # NullReport
             => num_pending_partial_reports_ \in {1, 2}
        /\ num_pending_partial_reports_ = 0 => partial_report_ = NullReport
        /\ num_cycles > 0
             => Cardinality(merged) + num_pending_partial_reports_
                  = NumPartialReports)
  /\ [][RunsAddPartialResults_s
        => /\ num_pending_partial_reports_ > 0
           /\ num_pending_partial_reports_'
                = num_pending_partial_reports_ - 1]_vars

\* In a second cycle two partial reports have been merged and one is
\* pending; the accumulator is set and is not the cached report.
C27_Witness ==
  /\ num_cycles = 2
  /\ num_pending_partial_reports_ = 1
  /\ Cardinality(merged) = 2
  /\ partial_report_ # NullReport
  /\ cached_report_ # NullReport
  /\ partial_report_ # cached_report_

\* C28: in every state callbacks_ is non-empty exactly when partial reports
\* are pending; the step that completes a cycle finds callbacks_ non-empty
\* and leaves cached_report_ set, and a GetStatsReport step that serves from
\* the cache finds cached_report_ set, so both assertions of
\* DeliverCachedReport hold at each call; and the step that dispatches a
\* cycle leaves exactly its own callback in callbacks_.
C28_QueueCycle ==
  /\ []((callbacks_ # << >>) <=> (num_pending_partial_reports_ > 0))
  /\ [][/\ CompletesCycle
            => (callbacks_ # << >> /\ cached_report_' # NullReport)
        /\ \A c \in Callbacks :
             delivered'[c] # delivered[c]
             => (cached_report_' # NullReport
                 /\ delivered'[c] = Append(delivered[c], cached_report_'))
        /\ num_cycles' = num_cycles + 1
            => callbacks_' = <<num_requests + 1>>]_vars

\* A second cycle has just been dispatched: its callback alone is queued,
\* three partial reports are pending, and the callback of the first cycle
\* has been served.
C28_Witness ==
  /\ num_cycles = 2
  /\ num_pending_partial_reports_ = NumPartialReports
  /\ callbacks_ = <<2>>
  /\ Served(1)
  /\ registration[2].path = "started"

\* The cycle whose producers created the report object r.
CycleOf(r) == ((r - 1) \div NumPartialReports) + 1

\* C29: whenever partial reports are pending, cached_report_ is null or
\* older than cache_lifetime_us_; so a callback GetStatsReport took while
\* partial reports were pending joined the running cycle, is not served
\* while that cycle runs and, once served, holds the report of that cycle.
C29_NoCacheHitDuringCycle ==
  /\ num_pending_partial_reports_ > 0
       => (\/ cached_report_ = NullReport
           \/ time_us - cache_timestamp_us_ > cache_lifetime_us_)
  /\ \A c \in Callbacks :
       (Registered(c) /\ registration[c].pending > 0)
       => /\ registration[c].path = "joined"
          /\ (num_pending_partial_reports_ > 0
                /\ registration[c].cycle = num_cycles) => ~Served(c)
          /\ Served(c) => CycleOf(delivered[c][1]) = registration[c].cycle

\* A callback was taken while partial reports were pending, later than
\* cache_lifetime_us_ after the cycle's start; it joined the cycle and has
\* been served that cycle's report together with the callback that started
\* it.
C29_Witness ==
  /\ num_pending_partial_reports_ = 0
  /\ \E a, c \in Callbacks :
       /\ registration[a].path = "started"
       /\ registration[c].path = "joined"
       /\ registration[c].pending > 0
       /\ registration[c].since_start > cache_lifetime_us_
       /\ delivered[c] = delivered[a]
       /\ Served(c)
       /\ CycleOf(delivered[c][1]) = registration[a].cycle

\* C30 as claimed: a report delivered to a GetStatsReport call made after a
\* ClearCachedStatsReport was built by a cycle dispatched after that
\* invalidation: by a later cycle than every report cached or delivered
\* before it, and, when the invalidation came while a cycle was running, by
\* a later cycle than that one.
C30_Original ==
  \A c \in Callbacks :
    Served(c)
    => /\ \A r \in registration[c].banned :
            CycleOf(delivered[c][1]) > CycleOf(r)
       /\ registration[c].cleared_cycle > 0
            => CycleOf(delivered[c][1]) > registration[c].cleared_cycle

\* C30 as amended: a report delivered to a GetStatsReport call made after a
\* ClearCachedStatsReport was built by a later cycle than every report cached
\* or delivered before the invalidation.  But an invalidation that comes
\* while a cycle is running does not reach that cycle: a call made after it
\* joins the cycle and is delivered its report, and the step that completes
\* the cycle caches that report.
C30_InvalidationSparesRunningCycle ==
  /\ [](\A c \in Callbacks :
          /\ Served(c)
               => \A r \in registration[c].banned :
                    CycleOf(delivered[c][1]) > CycleOf(r)
          /\ registration[c].cleared_cycle > 0
               => /\ registration[c].path = "joined"
                  /\ registration[c].cycle = registration[c].cleared_cycle
                  /\ Served(c)
                       => CycleOf(delivered[c][1])
                            = registration[c].cleared_cycle)
  /\ [][(CompletesCycle /\ cleared_in_flight)
         => /\ cached_report_' # NullReport
            /\ CycleOf(cached_report_') = num_cycles]_vars

\* ClearCachedStatsReport was called during a cycle; a callback taken after
\* it has been served the report of that cycle, which is now cached.
C30_Witness ==
  \E c \in Callbacks :
    /\ registration[c].cleared_cycle > 0
    /\ Served(c)
    /\ CycleOf(delivered[c][1]) = registration[c].cleared_cycle
    /\ cached_report_ = delivered[c][1]

(***************************************************************************)
(* The merge on its own: a collector whose three producers are overridden  *)
(* as FakeRTCStatsCollector overrides them, each building RTCTestStats     *)
(* records, on three threads of their own.  The order in which the three   *)
(* contributions reach AddPartialResults_s is an input here: each producer *)
(* hands its partial to AddPartialResults_s when it runs, and the three    *)
(* threads run in any order.                                               *)
(***************************************************************************)
TestStatsIds ==
  {"SignalingThreadStats", "WorkerThreadStats", "NetworkThreadStats"}

RTCTestStats(id, timestamp_us) ==
  [id |-> id, timestamp_us |-> timestamp_us, type |-> "test-stats",
   m |-> << >>]

\* A report with one RTCTestStats for each id of ids.
TestReport(ids, timestamp_us) ==
  [x \in ids |-> RTCTestStats(x, timestamp_us)]

\* The report object of the k-th producer of a cycle is ReportId(cycle, k).
ProducerIndex(p) ==
  IF p = "signaling" THEN 1 ELSE IF p = "worker" THEN 2 ELSE 3

ProducerThread(p) ==
  IF p = "signaling" THEN SignalingThread
  ELSE IF p = "worker" THEN worker_thread_ ELSE network_thread_

ProducerHandler(p) ==
  IF p = "signaling" THEN "ProducePartialResultsOnSignalingThread"
  ELSE IF p = "worker" THEN "ProducePartialResultsOnWorkerThread"
  ELSE "ProducePartialResultsOnNetworkThread"

\* The ids of the records the producers have built in this cycle.
ProducedIds ==
  UNION {DOMAIN produced[p][1] : p \in {q \in Producers : produced[q] # << >>}}

\* Producer p runs: it builds a partial whose ids no other partial of the
\* cycle holds, and AddPartialResults_s takes it.
Contribute(p) ==
  /\ Running
  /\ HeadIs(ProducerThread(p), ProducerHandler(p))
  /\ \E ids \in SUBSET (TestStatsIds \ ProducedIds) :
       LET task == Head(msgq[ProducerThread(p)])
           partial == TestReport(ids, task.timestamp_us)
       IN  /\ produced' = [produced EXCEPT ![p] = Append(@, partial)]
           /\ UNCHANGED faults
           /\ AddPartialResults_s(ProducerThread(p), task.report,
                                  [reports EXCEPT ![task.report] = partial],
                                  Popped(ProducerThread(p)))

ContributeSignaling == Contribute("signaling")

ContributeWorker == Contribute("worker")

ContributeNetwork == Contribute("network")

MergeInit ==
  /\ callbacks_ = << >>
  /\ num_pending_partial_reports_ = 0
  /\ partial_report_timestamp_us_ = 0
  /\ cache_timestamp_us_ = 0
  /\ cache_lifetime_us_ = 0
  /\ cached_report_ = NullReport
  /\ partial_report_ = NullReport
  /\ reports = [r \in ReportIds |-> EmptyReport]
  /\ msgq = [t \in Threads |-> << >>]
  /\ worker_thread_ = 2
  /\ network_thread_ = 3
  /\ time_us = 0
  /\ utc_us = 0
  /\ session = SessionEmpty
  /\ delivered = [c \in Callbacks |-> << >>]
  /\ registration = [c \in Callbacks |-> NoRegistration]
  /\ num_requests = 0
  /\ num_cycles = 0
  /\ produced = [p \in Producers |-> << >>]
  /\ merged = {}
  /\ completion_us = 0
  /\ invalidated = {}
  /\ cleared_in_flight = FALSE
  /\ accessed_on = {}
  /\ utc_readings = << >>
  /\ faults = NoFaults

MergeNext ==
  \/ Request
  \/ ClearCachedStatsReport
  \/ ContributeSignaling
  \/ ContributeWorker
  \/ ContributeNetwork

MergeSpec == MergeInit /\ [][MergeNext]_vars

\* The producers whose contribution of this cycle AddPartialResults_s has
\* taken.
Contributed ==
  {p \in Producers :
     /\ produced[p] # << >>
     /\ ReportId(num_cycles, ProducerIndex(p)) \in merged}

\* The union of the partials AddPartialResults_s has taken in this cycle.
UnionOfContributed ==
  LET parts == {produced[p][1] : p \in Contributed}
      ids == UNION {DOMAIN part : part \in parts}
  IN  [x \in ids |-> (CHOOSE part \in parts : x \in DOMAIN part)[x]]

\* C31: whichever of the three contributions reaches AddPartialResults_s
\* first, second and third, and whatever GetStatsReport and
\* ClearCachedStatsReport calls come in between, the accumulating report holds
\* exactly the records of the contributions taken so far, and the report
\* delivered for a completed cycle holds exactly the records, ids and values,
\* of the three partials: a function of the partials alone and not of the
\* order.
C31_MergeOrderIndependent ==
  /\ (num_pending_partial_reports_ > 0 /\ partial_report_ # NullReport)
     => reports[partial_report_] = UnionOfContributed
  /\ (num_pending_partial_reports_ = 0 /\ num_cycles > 0)
     => /\ Contributed = Producers
        /\ PartialsDisjoint
        /\ \A c \in Callbacks :
             (Registered(c) /\ registration[c].cycle = num_cycles)
             => /\ Served(c)
                /\ reports[delivered[c][1]] = UnionOfPartials
                /\ DOMAIN reports[delivered[c][1]] = ProducedIds

\* A cycle in which the network contribution came first, so that its report
\* object is the accumulator, the signaling contribution came last, each of
\* the three partials held a record, and a ClearCachedStatsReport call and a
\* second GetStatsReport call came in between: the callback that joined has
\* the three records.
C31_Witness ==
  /\ num_pending_partial_reports_ = 0
  /\ num_cycles = 1
  /\ \A p \in Producers : Cardinality(DOMAIN produced[p][1]) = 1
  /\ \E c \in Callbacks :
       /\ registration[c].path = "joined"
       /\ registration[c].cleared_cycle = 1
       /\ registration[c].pending = 1
       /\ ~Has(reports[ReportId(1, 1)], "SignalingThreadStats")
       /\ delivered[c] = <<ReportId(1, 3)>>
       /\ DOMAIN reports[ReportId(1, 3)] = TestStatsIds

(***************************************************************************)
(* The collector under a wall clock that is set while it runs: the value   *)
(* of rtc::TimeUTCMicros() changes to any other value of WallValues, up or *)
(* down, between any two steps.  rtc::TimeUTCMicros() counts from 1970 and *)
(* rtc::TimeMicros() from an arbitrary start, so the values of the two     *)
(* clocks are far apart.                                                   *)
(***************************************************************************)
WallValues == {1000, 1001}

SetWallClock ==
  /\ \E u \in WallValues \ {utc_us} : utc_us' = u
  /\ UNCHANGED <<collector_vars, reports, msgq, worker_thread_,
                 network_thread_, time_us, session, history_vars>>

ClockInit ==
  /\ callbacks_ = << >>
  /\ num_pending_partial_reports_ = 0
  /\ partial_report_timestamp_us_ = 0
  /\ cache_timestamp_us_ = 0
  /\ cache_lifetime_us_ \in 0..MaxLifetime
  /\ cached_report_ = NullReport
  /\ partial_report_ = NullReport
  /\ reports = [r \in ReportIds |-> EmptyReport]
  /\ msgq = [t \in Threads |-> << >>]
  /\ \E c \in {<<1, 1>>, <<2, 3>>} :
       worker_thread_ = c[1] /\ network_thread_ = c[2]
  /\ time_us = 0
  /\ utc_us \in WallValues
  /\ session = SessionOne
  /\ delivered = [c \in Callbacks |-> << >>]
  /\ registration = [c \in Callbacks |-> NoRegistration]
  /\ num_requests = 0
  /\ num_cycles = 0
  /\ produced = [p \in Producers |-> << >>]
  /\ merged = {}
  /\ completion_us = 0
  /\ invalidated = {}
  /\ cleared_in_flight = FALSE
  /\ accessed_on = {}
  /\ utc_readings = << >>
  /\ faults = NoFaults

ClockNext ==
  \/ Next
  \/ SetWallClock

ClockSpec == ClockInit /\ [][ClockNext]_vars

\* The producer tasks waiting in the queues of the three threads.
ProducerTasks ==
  UNION {{msgq[t][i] : i \in {j \in 1..Len(msgq[t]) :
                                msgq[t][j].handler # "AddPartialResults_s"}} :
         t \in Threads}

\* The records of the reports callback c has been delivered.
DeliveredRecords(c) ==
  UNION {{reports[delivered[c][i]][x] : x \in DOMAIN reports[delivered[c][i]]} :
         i \in 1..Len(delivered[c])}

\* C32 as claimed: every record of a delivered snapshot carries the reading of
\* the wall clock taken by the GetStatsReport call that dispatched its cycle,
\* whichever callback receives it, and hence a reading of the wall clock taken
\* after the delivery is not before that timestamp.
C32_Original ==
  \A c \in Callbacks :
    Served(c)
    => /\ \A x \in DeliveredRecords(c) :
            x.timestamp_us = registration[c].cycle
       /\ utc_readings[registration[c].cycle] <= utc_us

\* C32: GetStatsReport reads the wall clock once when it dispatches a cycle
\* and at no other time, and gives the reading to each of the three producer
\* tasks; every record of a snapshot a callback is delivered, whether the
\* callback dispatched the cycle, joined it later or was served from the
\* cache, carries that one reading.
C32_UniformTimestamp ==
  [][/\ IF num_cycles' # num_cycles
        THEN /\ utc_readings' = Append(utc_readings, utc_us)
             /\ Cardinality({task \in ProducerTasks' :
                               task.timestamp_us = num_cycles'})
                  = NumPartialReports
        ELSE UNCHANGED utc_readings
     /\ \A task \in ProducerTasks' : task.timestamp_us = num_cycles'
     /\ \A c \in Callbacks :
          delivered'[c] # delivered[c]
          => /\ DeliveredRecords(c)' # {}
             /\ \A x \in DeliveredRecords(c)' :
                  x.timestamp_us = registration'[c].cycle]_vars

\* A callback that joined the first cycle after the wall clock had been set
\* has been delivered that cycle's snapshot of several records, all carrying
\* the first reading, whose value is not what the wall clock shows now.
C32_Witness ==
  \E c \in Callbacks :
    /\ registration[c].path = "joined"
    /\ registration[c].cycle = 1
    /\ Served(c)
    /\ Cardinality(DeliveredRecords(c)) > 1
    /\ \A x \in DeliveredRecords(c) : x.timestamp_us = 1
    /\ utc_readings[1] > utc_us

\* The branch of GetStatsReport as the monotonic clock and the collector's
\* fields decide it.
Branch ==
  IF /\ cached_report_ # NullReport
     /\ time_us - cache_timestamp_us_ <= cache_lifetime_us_
  THEN "cached"
  ELSE IF num_pending_partial_reports_ = 0 THEN "started" ELSE "joined"

\* C33: the wall clock takes any values, jumps backwards included, and no
\* branch or delivery depends on them.  A step that sets the wall clock
\* changes nothing else; no field of the collector ever holds a reading of
\* the wall clock; each GetStatsReport call takes the branch that the
\* monotonic clock, cached_report_ and the pending count decide, and serves
\* the callback at once exactly on a cache hit; every other delivery is to
\* the callbacks waiting when the last partial report of the cycle arrives.
C33_WallClockIndependent ==
  [][/\ utc_us' # utc_us
        => UNCHANGED <<collector_vars, reports, msgq, worker_thread_,
                       network_thread_, time_us, session, history_vars>>
     /\ cache_timestamp_us_' \in 0..MaxTime
     /\ partial_report_timestamp_us_' \in 0..MaxTime
     /\ IF num_requests' # num_requests
        THEN /\ registration'[num_requests'].path = Branch
             /\ IF Branch = "cached"
                THEN delivered' = [delivered EXCEPT ![num_requests'] =
                                     <<cached_report_>>]
                ELSE UNCHANGED delivered
             /\ (num_cycles' # num_cycles) <=> (Branch = "started")
        ELSE /\ UNCHANGED num_cycles
             /\ delivered' # delivered
                => /\ CompletesCycle
                   /\ \A c \in Callbacks :
                        delivered'[c] # delivered[c] <=> Waiting(c)]_vars

\* The second cycle was dispatched after the wall clock had jumped backwards
\* (its reading is below the reading of the first cycle) because the cached
\* report had expired on the monotonic clock, and its callback was served.
C33_Witness ==
  \E c \in Callbacks :
    /\ registration[c].path = "started"
    /\ registration[c].cycle = 2
    /\ registration[c].cached # NullReport
    /\ registration[c].age > cache_lifetime_us_
    /\ utc_readings[2] < utc_readings[1]
    /\ Served(c)

(***************************************************************************)
(* Callbacks that call GetStatsReport from inside OnStatsDelivered.  The   *)
(* call is nested in the handler that delivers, GetStatsReport or          *)
(* AddPartialResults_s, so the handler is one step and the nested calls    *)
(* are computed on a frame: the fields a nested call or the delivery loop  *)
(* changes.                                                                *)
(***************************************************************************)
Frame ==
  [callbacks_ |-> callbacks_,
   pending |-> num_pending_partial_reports_,
   partial_report_timestamp_us_ |-> partial_report_timestamp_us_,
   msgq |-> msgq, delivered |-> delivered, registration |-> registration,
   num_requests |-> num_requests, num_cycles |-> num_cycles,
   utc_readings |-> utc_readings, invalidated |-> invalidated,
   aborted |-> FALSE]

\* The range-based for of DeliverCachedReport takes callbacks_.begin() and
\* callbacks_.end() once.  A nested GetStatsReport does callbacks_.push_back,
\* which invalidates them when the vector reallocates, and a nested
\* DeliverCachedReport does callbacks_.clear(), which destroys the elements
\* they point at.  What the loop then reads is undefined: the elements as
\* they were, or something that ends the process.
DanglingOutcomes == {"intact", "crash"}

RECURSIVE NestedGetStatsReport(_, _, _)
RECURSIVE DeliverLoop(_, _, _, _, _)

\* DeliverCachedReport on frame f.  in.fresh, in.report, in.age and
\* in.cached are the outcome of the freshness test, cached_report_ and the
\* age of the cache, which no nested call changes; in.reenters are the
\* callbacks that call GetStatsReport when they are first delivered a report.
NestedDeliverCachedReport(f, in) ==
  IF f.callbacks_ = << >> /\ in.dcheck_is_on
  THEN [f EXCEPT !.aborted = TRUE]
  ELSE LET after == DeliverLoop(f, f.callbacks_, 1, FALSE, in)
       IN  IF after.aborted THEN after
           ELSE [after EXCEPT !.callbacks_ = << >>]

\* The loop of DeliverCachedReport over cbs, the elements of callbacks_ when
\* the loop began, from the i-th on; invalid: a nested call has changed
\* callbacks_ since.
DeliverLoop(f, cbs, i, invalid, in) ==
  IF i > Len(cbs) \/ f.aborted THEN f
  ELSE IF invalid /\ in.outcome = "crash" THEN [f EXCEPT !.aborted = TRUE]
  ELSE LET callback == cbs[i]
           served == [f EXCEPT !.delivered[callback] = Append(@, in.report)]
           calls == /\ callback \in in.reenters
                    /\ f.delivered[callback] = << >>
                    /\ f.num_requests < MaxCallbacks
                    /\ (in.fresh \/ f.pending > 0 \/ f.num_cycles < MaxCycles)
           returned == IF calls
                       THEN NestedGetStatsReport(served, f.num_requests + 1,
                                                 in)
                       ELSE served
       IN  DeliverLoop(returned, cbs, i + 1, invalid \/ calls, in)

\* GetStatsReport(callback) on frame f.
NestedGetStatsReport(f, callback, in) ==
  LET start == ~in.fresh /\ f.pending = 0
      timestamp_us == TimeUTCMicros(f.num_cycles + 1)
      pushed ==
        [f EXCEPT
           !.callbacks_ = Append(@, callback),
           !.num_requests = @ + 1,
           !.invalidated = {},
           !.registration[callback] =
             [path |-> IF in.fresh THEN "cached"
                       ELSE IF start THEN "started" ELSE "joined",
              cycle |-> IF start THEN f.num_cycles + 1 ELSE f.num_cycles,
              cached |-> in.cached,
              pending |-> f.pending,
              age |-> in.age,
              since_start |-> time_us - f.partial_report_timestamp_us_,
              since_completion |-> in.since_completion,
              banned |-> f.invalidated,
              cleared_cycle |-> in.cleared_cycle]]
  IN  IF in.fresh THEN NestedDeliverCachedReport(pushed, in)
      ELSE IF start
      THEN [pushed EXCEPT
              !.pending = NumPartialReports,
              !.partial_report_timestamp_us_ = time_us,
              !.msgq =
                Post(Post(Post(@, SignalingThread,
                    Task("ProducePartialResultsOnSignalingThread",
                         timestamp_us, ReportId(f.num_cycles + 1, 1))),
                  worker_thread_,
                    Task("ProducePartialResultsOnWorkerThread",
                         timestamp_us, ReportId(f.num_cycles + 1, 2))),
                  network_thread_,
                    Task("ProducePartialResultsOnNetworkThread",
                         timestamp_us, ReportId(f.num_cycles + 1, 3))),
              !.num_cycles = @ + 1,
              !.utc_readings = Append(@, utc_us)]
      ELSE pushed

\* The handler returns with frame f, or the process has ended inside it.
Return(f) ==
  IF f.aborted
  THEN /\ faults' = [faults EXCEPT !.aborted = TRUE]
       /\ UNCHANGED <<callbacks_, num_pending_partial_reports_,
                      partial_report_timestamp_us_, msgq, delivered,
                      registration, num_requests, num_cycles, utc_readings,
                      invalidated>>
  ELSE /\ callbacks_' = f.callbacks_
       /\ num_pending_partial_reports_' = f.pending
       /\ partial_report_timestamp_us_' = f.partial_report_timestamp_us_
       /\ msgq' = f.msgq
       /\ delivered' = f.delivered
       /\ registration' = f.registration
       /\ num_requests' = f.num_requests
       /\ num_cycles' = f.num_cycles
       /\ utc_readings' = f.utc_readings
       /\ invalidated' = f.invalidated
       /\ faults' = IF f.num_cycles # num_cycles THEN NoFaults ELSE faults

\* GetStatsReport called by a caller on the signaling thread, with callbacks
\* that may call GetStatsReport when they are delivered the report.
ReentrantRequest ==
  /\ Running
  /\ num_requests < MaxCallbacks
  /\ \E reenters \in SUBSET Callbacks, outcome \in DanglingOutcomes,
        dcheck_is_on \in DcheckIsOn :
       LET in == [fresh |-> HasFreshCachedReport(time_us),
                  report |-> cached_report_,
                  cached |-> cached_report_,
                  age |-> time_us - cache_timestamp_us_,
                  since_completion |-> time_us - completion_us,
                  cleared_cycle |->
                    IF cleared_in_flight THEN num_cycles ELSE 0,
                  reenters |-> reenters, outcome |-> outcome,
                  dcheck_is_on |-> dcheck_is_on]
           f == NestedGetStatsReport(Frame, num_requests + 1, in)
       IN  /\ f.num_cycles <= MaxCycles
           /\ Return(f)
           /\ IF f.aborted
              THEN UNCHANGED <<produced, merged, accessed_on>>
              ELSE /\ produced' = IF f.num_cycles # num_cycles
                                  THEN [p \in Producers |-> << >>]
                                  ELSE produced
                   /\ merged' = IF f.num_cycles # num_cycles THEN {}
                                ELSE merged
                   /\ accessed_on' = accessed_on \cup {SignalingThread}
  /\ UNCHANGED <<cache_timestamp_us_, cache_lifetime_us_, cached_report_,
                 partial_report_, reports, worker_thread_, network_thread_,
                 time_us, utc_us, session, completion_us, cleared_in_flight>>

\* The signaling thread runs an AddPartialResults_s posted by another thread;
\* the callbacks it delivers to may call GetStatsReport.
ReentrantRunAddPartialResults_s ==
  /\ Running
  /\ HeadIs(SignalingThread, "AddPartialResults_s")
  /\ IF ~NothingPending(PendingAfter)
     THEN /\ AddPartialResults_s(SignalingThread,
                                 Head(msgq[SignalingThread]).report, reports,
                                 Popped(SignalingThread))
          /\ UNCHANGED <<produced, faults>>
     ELSE \E reenters \in SUBSET Callbacks, outcome \in DanglingOutcomes,
             dcheck_is_on \in DcheckIsOn :
            LET partial_report == Head(msgq[SignalingThread]).report
                report == Accumulator(partial_report)
                in == [fresh |-> time_us - CacheTimestampAtCompletion
                                   <= cache_lifetime_us_,
                       report |-> report,
                       cached |-> report,
                       age |-> time_us - CacheTimestampAtCompletion,
                       since_completion |-> 0,
                       cleared_cycle |-> 0,
                       reenters |-> reenters, outcome |-> outcome,
                       dcheck_is_on |-> dcheck_is_on]
                f == NestedDeliverCachedReport(
                       [Frame EXCEPT !.pending = PendingAfter,
                                     !.msgq = Popped(SignalingThread)], in)
            IN  /\ Return(f)
                /\ IF f.aborted
                   THEN UNCHANGED <<cache_timestamp_us_, cached_report_,
                                    partial_report_, reports, completion_us,
                                    cleared_in_flight, produced, merged,
                                    accessed_on>>
                   ELSE /\ reports' = Accumulate(partial_report, reports)
                        /\ cache_timestamp_us_' = CacheTimestampAtCompletion
                        /\ cached_report_' = report
                        /\ partial_report_' = AfterPublication(report)
                        /\ completion_us' = time_us
                        /\ cleared_in_flight' = FALSE
                        /\ accessed_on' = accessed_on \cup {SignalingThread}
                        /\ produced' = IF f.num_cycles # num_cycles
                                       THEN [p \in Producers |-> << >>]
                                       ELSE produced
                        /\ merged' = IF f.num_cycles # num_cycles THEN {}
                                     ELSE merged \cup {partial_report}
                /\ UNCHANGED <<cache_lifetime_us_, worker_thread_,
                               network_thread_, time_us, utc_us, session>>

\* The worker and network threads are threads of their own, so that every
\* cycle completes in an AddPartialResults_s the signaling thread was posted.
ReentrantInit ==
  /\ callbacks_ = << >>
  /\ num_pending_partial_reports_ = 0
  /\ partial_report_timestamp_us_ = 0
  /\ cache_timestamp_us_ = 0
  /\ cache_lifetime_us_ \in 0..MaxLifetime
  /\ cached_report_ = NullReport
  /\ partial_report_ = NullReport
  /\ reports = [r \in ReportIds |-> EmptyReport]
  /\ msgq = [t \in Threads |-> << >>]
  /\ worker_thread_ = 2
  /\ network_thread_ = 3
  /\ time_us = 0
  /\ utc_us = 0
  /\ session = SessionEmpty
  /\ delivered = [c \in Callbacks |-> << >>]
  /\ registration = [c \in Callbacks |-> NoRegistration]
  /\ num_requests = 0
  /\ num_cycles = 0
  /\ produced = [p \in Producers |-> << >>]
  /\ merged = {}
  /\ completion_us = 0
  /\ invalidated = {}
  /\ cleared_in_flight = FALSE
  /\ accessed_on = {}
  /\ utc_readings = << >>
  /\ faults = NoFaults

ReentrantNext ==
  \/ ReentrantRequest
  \/ ClearCachedStatsReport
  \/ ProducePartialResultsOnSignalingThread
  \/ ProducePartialResultsOnWorkerThread
  \/ ProducePartialResultsOnNetworkThread
  \/ ReentrantRunAddPartialResults_s
  \/ AdvanceTime

ReentrantSpec == ReentrantInit /\ [][ReentrantNext]_vars

\* C34 as claimed: with callbacks that call GetStatsReport from inside
\* OnStatsDelivered, no callback is invoked more than once, a callback that
\* has not been invoked yet is waiting in the queue, the one registered from
\* inside a delivery included, and the queue is empty whenever no cycle runs.
C34_Original ==
  Running
  => /\ \A c \in Callbacks :
          Registered(c)
          => /\ Len(delivered[c]) <= 1
             /\ Served(c) \/ Waiting(c)
     /\ num_pending_partial_reports_ = 0 => callbacks_ = << >>

(***************************************************************************)
(* The session stats with the transports, the channels of each transport   *)
(* and the connection infos of each channel in another order.              *)
(***************************************************************************)
Reorderings(seq) ==
  {[i \in 1..Len(seq) |-> seq[f[i]]] :
     f \in {g \in [1..Len(seq) -> 1..Len(seq)] :
              \A a, b \in 1..Len(seq) : g[a] = g[b] => a = b}}

\* The channel lists with the connection infos of each channel permuted.
RECURSIVE InfosPermuted(_)
InfosPermuted(channels) ==
  IF channels = << >> THEN {<< >>}
  ELSE {<<infos>> \o rest : infos \in Reorderings(Head(channels)),
                            rest \in InfosPermuted(Tail(channels))}

\* The transport lists with the channels of each transport, and the
\* connection infos of each channel, permuted.
RECURSIVE ChannelsPermuted(_)
ChannelsPermuted(transports) ==
  IF transports = << >> THEN {<< >>}
  ELSE {<<[Head(transports) EXCEPT !.channel_stats = channels]>> \o rest :
          channels \in UNION {Reorderings(c) :
                                c \in InfosPermuted(Head(transports).channel_stats)},
          rest \in ChannelsPermuted(Tail(transports))}

ReorderedSessions(s) ==
  {[s EXCEPT !.transport_stats = transports] :
     transports \in UNION {Reorderings(t) :
                             t \in ChannelsPermuted(s.transport_stats)}}

\* The candidate and candidate-pair records of a report.
CandidateAndPairRecords(report) ==
  {report[x] : x \in RecordsOfType(report, {"local-candidate",
                                            "remote-candidate",
                                            "candidate-pair"})}

\* C35 as claimed: for any session stats, the candidate and candidate-pair
\* records the producer has built, ids, type tags and member values, are the
\* records it builds from the same transports, channels and connection infos
\* in any other order.
C35_Original ==
  (SignalingProduced /\ session.ok)
  => \A s \in ReorderedSessions(session) :
       CandidateAndPairRecords(
         ProduceIceCandidateAndPairStats_s(TimeUTCMicros(num_cycles), s,
                                           NewProduction).report)
       = CandidateAndPairRecords(SignalingReport)

====
